---- MODULE Spec2Model ----
(***************************************************************************)
(* Host-side orchestration of the matrix-rain WebGPU renderer:             *)
(*   - the render graph (three implementations kept in the repository),    *)
(*   - the resource lifetime managers,                                     *)
(*   - the frame loop combined with resize handling.                       *)
(***************************************************************************)
EXTENDS Integers, Sequences, FiniteSets, TLC

VARIABLES
    impl,        \* which render-graph implementation the builder object is
    passes,      \* the builder's pass list / node list / pass map (insertion order)
    resources,   \* RenderGraphBuilder.resources: declared resource names
    compiled,    \* the CompiledRenderGraph / RenderGraph the builder returned
    call,        \* the last call made on the graph: [op, name, ctx]
    thrown,      \* the error that call threw ("none" when it returned)
    log,         \* the pass invocations that call made: <<pass id, ctx>>
    rmImpl,      \* which ResourceManager class the scope object is
    destroyables,\* part_014: this.destroyables
    tracked,     \* part_014: this.tracked; part_009: this.resources (insertion order)
    destroyed,   \* part_014: this.destroyed
    rmCall,      \* the last call made on the scope: [op, arg, ret]
    rmThrown,    \* the error that call threw ("none" when it returned)
    rmLog,       \* the destroy() calls that call made, in order
    sinceClear,  \* registrations that returned since the scope was created or last
                 \* destroyAll call: <<resource, registering operation>>
    clears,      \* destroyAll calls made on the scope so far
    appImpl,     \* which bootstrap runs: app/main.ts ("listener") or main.ts ("handleResize")
    canvas,      \* the canvas size swapChain.resize() reports now
    layout,      \* the layout the application holds
    gen,         \* generation of the current surface resources (1 = bootstrap)
    live,        \* surface resources created and not destroyed: [kind, gen]
    inFlight,    \* command buffers submitted and not completed (queue order), each
                 \* the set of surface resources its commands reference
    resizeInProgress, \* main.ts: resizeInProgress
    old,         \* main.ts handleResize: generation held by `old` (0: none)
    waitFor,     \* main.ts handleResize: submissions the pending
                 \* onSubmittedWorkDone() promise still waits for
    built,       \* the sizes the current render graph was built with:
                 \* [instanceBytes, drawInstances, simCols, simMaxTrail]
    loopImpl,    \* which startRenderLoop runs: part_009, part_015 or part_018
    rafPending,  \* a requestAnimationFrame callback of the loop is scheduled
    frames,      \* ticks the browser has run (the count saturates)
    submits,     \* command buffers the loop has submitted (the count saturates)
    lastFrame,   \* what the last tick did: [acquire, callback, submit, rendered, uncaught]
    stopped,     \* the stop function startRenderLoop returned has been called
    shader,      \* which simulation compute shader runs
    simUniforms, \* SimulationUniforms: [dt, rows, cols, maxTrail, glyphCount]
    heads,       \* heads[column]: f32, in units of 2^-18 cell
    speeds,      \* speeds[column]: f32, in units of 2^-18 cell per second
    lengths,     \* lengths[column]: u32
    seeds,       \* seeds[column]: u32 as [hi, lo] 16-bit halves
    energies,    \* energies[column]: f32, in units of 2^-18
    instances,   \* instances[slot]: [row, glyph, brightness], or "unwritten"
    ticks,       \* dispatches executed so far
    pc,          \* pc[column]: where the invocation of main for the column stands
    regs,        \* regs[column]: the function-scope variables of that invocation
    ref,         \* the buffers of a second run that executes its invocations in
                 \* column order, one after the other
    slotWrites,  \* the stores to instances of the current dispatch: [column, idx]
    atlasImpl,   \* which createGlyphAtlas runs: "resources" or "part_012"
    atlasOptions,\* the glyph count, the measured width, the options, the device limit
    atlasResult, \* what createGlyphAtlas returned or threw
    modules,     \* ShaderLoader.modules: key -> module, 0 when absent
    pending,     \* ShaderLoader.pending: key -> promise, 0 when absent
    promises,    \* the promises loadInternal returned, in order of creation
    loads,       \* the load calls made, in order
    destroys,    \* destroy calls made on the loader
    passCols,    \* SimulationComputePass.cols (0: no pass built)
    simCols,     \* sim.cols of the uniform buffer the shader reads
    workgroups,  \* workgroups of the dispatch in flight (0: none in flight)
    ran,         \* the workgroups of that dispatch that have run
    updated,     \* updated[i]: stores to the column state at index i in this frame
    executes,    \* execute calls made on the pass
    regEntries,  \* ResourceRegistry.resources: <<[name, kind, desc]>> in insertion order
    frozen,      \* ResourceRegistry.frozen
    callerDescs, \* the descriptor objects the callers of add* hold: object -> size
    regCall,     \* the last call made on the registry: [op, name, desc]
    regThrown,   \* the error that call threw ("none" when it returned)
    regCalls,    \* calls made on the registry so far
    mgrBuilt,    \* a registry-backed ResourceManager has been constructed
    mgrBuffers,  \* ResourceManager.buffers: name -> GPU object, 0 when absent
    mgrTextures, \* ResourceManager.textures: name -> GPU object, 0 when absent
    mgrSamplers, \* ResourceManager.samplers: name -> GPU object, 0 when absent
    mgrDestroyed,\* ResourceManager.destroyed
    gpuObjects,  \* the objects the device created: <<[kind, name, destroys]>>
    mgrCall,     \* the last call made on the manager: [op, name, ret]
    mgrThrown,   \* the error that call threw ("none" when it returned)
    mgrCalls,    \* calls made on the manager so far
    stopImpl,    \* which startRenderLoop runs: part_009, part_015 or screen-uniform-buffer.ts
    rafId,       \* part_009 / part_015: rafId
    isActive,    \* screen-uniform-buffer.ts: isActive
    rafRequests, \* requestAnimationFrame callbacks requested and neither run nor cancelled (ids)
    rafCount,    \* ids requestAnimationFrame has handed out
    stopCalled,  \* the stop function startRenderLoop returned has been called
    lastTick,    \* the last tick the browser ran: [afterStop, encoded, submitted]
    handlerPc,   \* where the handleResize call that set resizeInProgress stands
    resizeEvents,\* resize events delivered so far
    lastEvent,   \* what handleResize did with the last resize event
    swapImpl,    \* which bootstrap with rendererRef runs: "main.ts" or "render-graph.ts"
    rendererRef, \* the set whose renderer the frame callback encodes with
    streamsRef,  \* the set whose stream buffers are current
    instancesBufRef,\* the set whose instance buffer is current
    currentGrid, \* currentCols, currentRows (as one grid id)
    canvasGrid,  \* the grid the canvas size gives now
    resizeTimer, \* the debounce requestAnimationFrame is pending
    swapHandlers,\* the handleResize calls: [pc, grid, set, oldStreams, oldInstances, oldRenderer]
    setsCreated, \* resource sets created so far
    destroyCount,\* destroy() calls that reached each object of each set
    swapEvents,  \* resize events delivered so far
    swapFrame,   \* the last frame callback: [set, destroyed]
    rtImpl,      \* which render-target registry: "part_008" or "render-target-registry.ts"
    rtWidth,     \* the width the registry creates textures at
    rtHeight,    \* the height the registry creates textures at
    colorTargets,\* part_008 colorTargets: name -> texture, 0 when absent
    depthTargets,\* part_008 depthTargets: name -> texture, 0 when absent
    rtTextures,  \* RenderTargetRegistry.textures: name -> texture, 0 when absent
    screenDescs, \* the names whose descriptor has size "screen"
    deviceTextures,\* the textures the device created: <<[width, height, destroys]>>
    rtCall,      \* the last registry call: [op, name, ret]
    rtCalls      \* registry calls made so far

graphVars == <<impl, passes, resources, compiled, call, thrown, log>>

rmVars == <<rmImpl, destroyables, tracked, destroyed, rmCall, rmThrown, rmLog, sinceClear, clears>>

appVars == <<appImpl, canvas, layout, gen, live, inFlight, resizeInProgress, old, waitFor,
            built>>

loopVars == <<loopImpl, rafPending, frames, submits, lastFrame, stopped>>

simVars == <<shader, simUniforms, heads, speeds, lengths, seeds, energies, instances, ticks,
            pc, regs, ref, slotWrites>>

atlasVars == <<atlasImpl, atlasOptions, atlasResult>>

loaderVars == <<modules, pending, promises, loads, destroys>>

dispatchVars == <<passCols, simCols, workgroups, ran, updated, executes>>

registryVars == <<regEntries, frozen, callerDescs, regCall, regThrown, regCalls>>

managerVars == <<mgrBuilt, mgrBuffers, mgrTextures, mgrSamplers, mgrDestroyed, gpuObjects, mgrCall, mgrThrown, mgrCalls>>

stopVars == <<stopImpl, rafId, isActive, rafRequests, rafCount, stopCalled, lastTick>>

handlerVars == <<handlerPc, resizeEvents, lastEvent>>

swapVars == <<swapImpl, rendererRef, streamsRef, instancesBufRef, currentGrid, canvasGrid, resizeTimer, swapHandlers, setsCreated, destroyCount, swapEvents, swapFrame>>

targetVars == <<rtImpl, rtWidth, rtHeight, colorTargets, depthTargets, rtTextures, screenDescs, deviceTextures, rtCall, rtCalls>>

vars == <<graphVars, rmVars, appVars, loopVars, simVars, atlasVars, loaderVars, dispatchVars, registryVars, managerVars, stopVars, handlerVars, swapVars, targetVars>>

\* what a call on one subsystem leaves alone
nonGraphVars == <<rmVars, appVars, loopVars, simVars, atlasVars, loaderVars, dispatchVars, registryVars, managerVars, stopVars, handlerVars, swapVars, targetVars>>

nonRmVars == <<graphVars, appVars, loopVars, simVars, atlasVars, loaderVars, dispatchVars, registryVars, managerVars, stopVars, handlerVars, swapVars, targetVars>>

nonAppVars == <<graphVars, rmVars, loopVars, simVars, atlasVars, loaderVars, dispatchVars, registryVars, managerVars, stopVars, handlerVars, swapVars, targetVars>>

nonLoopVars == <<graphVars, rmVars, appVars, simVars, atlasVars, loaderVars, dispatchVars, registryVars, managerVars, stopVars, handlerVars, swapVars, targetVars>>

nonSimVars == <<graphVars, rmVars, appVars, loopVars, atlasVars, loaderVars, dispatchVars, registryVars, managerVars, stopVars, handlerVars, swapVars, targetVars>>

nonAtlasVars == <<graphVars, rmVars, appVars, loopVars, simVars, loaderVars, dispatchVars, registryVars, managerVars, stopVars, handlerVars, swapVars, targetVars>>

nonLoaderVars == <<graphVars, rmVars, appVars, loopVars, simVars, atlasVars, dispatchVars, registryVars, managerVars, stopVars, handlerVars, swapVars, targetVars>>

nonDispatchVars == <<graphVars, rmVars, appVars, loopVars, simVars, atlasVars, loaderVars, registryVars, managerVars, stopVars, handlerVars, swapVars, targetVars>>

nonRegistryVars == <<graphVars, rmVars, appVars, loopVars, simVars, atlasVars, loaderVars, dispatchVars, managerVars, stopVars, handlerVars, swapVars, targetVars>>

nonManagerVars == <<graphVars, rmVars, appVars, loopVars, simVars, atlasVars, loaderVars, dispatchVars, registryVars, stopVars, handlerVars, swapVars, targetVars>>

nonRegistryManagerVars == <<graphVars, rmVars, appVars, loopVars, simVars, atlasVars, loaderVars, dispatchVars, stopVars, handlerVars, swapVars, targetVars>>

nonStopVars == <<graphVars, rmVars, appVars, loopVars, simVars, atlasVars, loaderVars, dispatchVars, registryVars, managerVars, handlerVars, swapVars, targetVars>>

nonHandlerVars == <<graphVars, rmVars, appVars, loopVars, simVars, atlasVars, loaderVars, dispatchVars, registryVars, managerVars, stopVars, swapVars, targetVars>>

nonAppHandlerVars == <<graphVars, rmVars, loopVars, simVars, atlasVars, loaderVars, dispatchVars, registryVars, managerVars, stopVars, swapVars, targetVars>>

nonSwapVars == <<graphVars, rmVars, appVars, loopVars, simVars, atlasVars, loaderVars, dispatchVars, registryVars, managerVars, stopVars, handlerVars, targetVars>>

nonTargetVars == <<graphVars, rmVars, appVars, loopVars, simVars, atlasVars, loaderVars, dispatchVars, registryVars, managerVars, stopVars, handlerVars, swapVars>>

----------------------------------------------------------------------------
(* Bounds of the model *)

MaxPasses == 3

\* longest deps array of a pass of the name-declared graph
MaxDeps == 2

\* resource handles a pass may declare (instance buffer I, colour target C)
Res == {"I", "C"}

\* pass names of the name-declared graph
Names == {"Sim", "Draw", "Present"}

\* frame contexts handed to execute
Ctxs == {1, 2}

\* registrations made on one scope between two destroyAll calls
MaxTracked == 3
\* destroyAll calls counted on one manager (the count saturates)
MaxClears == 2

\* GPU objects handed to a scope; a sampler has no destroy method
Resources == {"bufA", "bufB", "sampler"}

HasDestroy(r) == r # "sampler"

----------------------------------------------------------------------------
(* Helpers over sequences *)

Min(a, b) == IF a < b THEN a ELSE b

Range(s) == {s[i] : i \in DOMAIN s}

\* position of the first element of s with the given id (0 when absent)
RECURSIVE IndexOfId(_, _, _)
IndexOfId(s, id, k) ==
    IF k > Len(s) THEN 0
    ELSE IF s[k].id = id THEN k ELSE IndexOfId(s, id, k + 1)

\* ids of s in order of first occurrence (insertion order of a JS Map / Set)
RECURSIVE DistinctIds(_, _)
DistinctIds(s, acc) ==
    IF s = <<>> THEN acc
    ELSE DistinctIds(Tail(s),
                     IF Head(s).id \in Range(acc) THEN acc ELSE Append(acc, Head(s).id))

----------------------------------------------------------------------------
(* Render graph: ordering algorithms *)

\* the pass object registered under an id
PassOf(ps, id) == ps[IndexOfId(ps, id, 1)]

\* Kahn's loop shared by compileRenderGraph and topoSort:
\*   while (queue.length > 0) { p = queue.shift(); ordered.push(p);
\*     for (n of edges.get(p)) { d = inDegree.get(n) - 1; inDegree.set(n, d);
\*                                if (d === 0) queue.push(n); } }
RECURSIVE KahnNeighbours(_, _, _)
KahnNeighbours(neigh, deg, queue) ==
    IF neigh = <<>> THEN [deg |-> deg, queue |-> queue]
    ELSE LET n == Head(neigh)
             d == deg[n] - 1
         IN KahnNeighbours(Tail(neigh),
                           [deg EXCEPT ![n] = d],
                           IF d = 0 THEN Append(queue, n) ELSE queue)

RECURSIVE KahnLoop(_, _, _, _)
KahnLoop(queue, deg, ordered, edges) ==
    IF queue = <<>> THEN ordered
    ELSE LET p == Head(queue)
             r == KahnNeighbours(edges[p], deg, Tail(queue))
         IN KahnLoop(r.queue, r.deg, Append(ordered, p), edges)

\* the initial queue: keys of the inDegree Map, in insertion order, with degree 0
RECURSIVE ZeroDegree(_, _)
ZeroDegree(keys, deg) ==
    IF keys = <<>> THEN <<>>
    ELSE IF deg[Head(keys)] = 0
         THEN <<Head(keys)>> \o ZeroDegree(Tail(keys), deg)
         ELSE ZeroDegree(Tail(keys), deg)

\* hazard with the read-after-write edge pointing from the reader to the writer
hazard_reversed(a, b) ==
    \/ a.reads \cap b.writes # {}
    \/ a.writes \cap b.writes # {}

\* hazard that also orders two readers of one resource
hazard_readers(a, b) ==
    \/ a.writes \cap b.reads # {}
    \/ a.writes \cap b.writes # {}
    \/ a.reads \cap b.reads # {}

\* part_010: hazard between a and b (a must run before b)
hazard(a, b) ==
    \/ a.writes \cap b.reads # {}
    \/ a.writes \cap b.writes # {}

\* Set<RenderPassNode> edges.get(a): the distinct b, in the order the inner loop adds them
RECURSIVE hazardEdges(_, _, _, _)
hazardEdges(ps, a, j, acc) ==
    IF j > Len(ps) THEN acc
    ELSE LET b == ps[j]
         IN hazardEdges(ps, a, j + 1,
                IF b.id # a.id /\ hazard(a, b) /\ b.id \notin Range(acc)
                THEN Append(acc, b.id) ELSE acc)

\* inDegree.get(b) after the double loop: one increment per pair of list positions
hazardInDegree(ps, bid) ==
    Cardinality({ij \in (DOMAIN ps) \X (DOMAIN ps) :
                    /\ ps[ij[1]].id # ps[ij[2]].id
                    /\ ps[ij[2]].id = bid
                    /\ hazard(ps[ij[1]], ps[ij[2]])})

Ok(order) == [ok |-> TRUE, error |-> "none", order |-> order]
Err(e) == [ok |-> FALSE, error |-> e, order |-> <<>>]

\* compileRenderGraph without the ordered.length check after Kahn's loop
compileRenderGraph_unchecked(ps) ==
    LET keys  == DistinctIds(ps, <<>>)
        ids   == Range(keys)
        edges == [a \in ids |-> hazardEdges(ps, PassOf(ps, a), 1, <<>>)]
        deg   == [b \in ids |-> hazardInDegree(ps, b)]
    IN Ok(KahnLoop(ZeroDegree(keys, deg), deg, <<>>, edges))

\* part_010 compileRenderGraph(passes): the order, or the error thrown
compileRenderGraph(ps) ==
    LET keys  == DistinctIds(ps, <<>>)
        ids   == Range(keys)
        edges == [a \in ids |-> hazardEdges(ps, PassOf(ps, a), 1, <<>>)]
        deg   == [b \in ids |-> hazardInDegree(ps, b)]
        ordered == KahnLoop(ZeroDegree(keys, deg), deg, <<>>, edges)
    IN IF Len(ordered) # Len(ps) THEN Err("cycle") ELSE Ok(ordered)

\* sim/streams.ts: a depends on b when a reads what b writes
dependsOn(a, b) == a.reads \cap b.writes # {}

\* sim/streams.ts topologicalSort: depth-first visit with visited/visiting marks;
\* st = [visited, visiting, result, err]; nodes are identified by list position
RECURSIVE visit(_, _, _)
RECURSIVE visitOthers(_, _, _, _)
visit(nodes, n, st) ==
    IF st.err THEN st
    ELSE IF n \in st.visited THEN st
    ELSE IF n \in st.visiting THEN [st EXCEPT !.err = TRUE]
    ELSE LET st1 == [st EXCEPT !.visiting = @ \cup {n}]
             st2 == visitOthers(nodes, n, 1, st1)
         IN IF st2.err THEN st2
            ELSE [st2 EXCEPT !.visiting = @ \ {n},
                             !.visited = @ \cup {n},
                             !.result = Append(@, n)]

visitOthers(nodes, n, k, st) ==
    IF k > Len(nodes) \/ st.err THEN st
    ELSE visitOthers(nodes, n, k + 1,
            IF k # n /\ dependsOn(nodes[n], nodes[k])
            THEN visit(nodes, k, st) ELSE st)

RECURSIVE visitAll(_, _, _)
visitAll(nodes, k, st) ==
    IF k > Len(nodes) \/ st.err THEN st
    ELSE visitAll(nodes, k + 1, visit(nodes, k, st))

topologicalSort(nodes) ==
    LET st == visitAll(nodes, 1,
                  [visited |-> {}, visiting |-> {}, result |-> <<>>, err |-> FALSE])
    IN IF st.err THEN Err("cycle")
       ELSE Ok([i \in DOMAIN st.result |-> nodes[st.result[i]].id])

\* engine/render/render-graph.ts topoSort: passes is a Map name -> pass (insertion order)
HasName(ps, name) == \E i \in DOMAIN ps : ps[i].name = name

\* adj.get(dep): one push per (pass, dep entry), passes in Map order
RECURSIVE depsAdj(_, _, _)
RECURSIVE depsCount(_, _)
depsCount(deps, d) ==
    IF deps = <<>> THEN 0
    ELSE (IF Head(deps) = d THEN 1 ELSE 0) + depsCount(Tail(deps), d)

RECURSIVE Repeat(_, _)
Repeat(x, n) == IF n = 0 THEN <<>> ELSE <<x>> \o Repeat(x, n - 1)

depsAdj(ps, d, k) ==
    IF k > Len(ps) THEN <<>>
    ELSE Repeat(ps[k].name, depsCount(ps[k].deps, d)) \o depsAdj(ps, d, k + 1)

topoSort(ps) ==
    LET names == [i \in DOMAIN ps |-> ps[i].name]
        nset  == Range(names)
        byName(n) == CHOOSE i \in DOMAIN ps : ps[i].name = n
    IN IF \E i \in DOMAIN ps : \E k \in DOMAIN ps[i].deps : ~HasName(ps, ps[i].deps[k])
       THEN Err("unknown")
       ELSE LET deg == [n \in nset |-> Len(ps[byName(n)].deps)]
                adj == [n \in nset |-> depsAdj(ps, n, 1)]
                ordered == KahnLoop(ZeroDegree(names, deg), deg, <<>>, adj)
            IN IF Len(ordered) # Len(ps) THEN Err("cycle")
               ELSE Ok([i \in DOMAIN ordered |-> ps[byName(ordered[i])].id])

----------------------------------------------------------------------------
(* Render graph: builder objects and execution *)

Uncompiled == Err("uncompiled")

Call(op, name, ctx) == [op |-> op, name |-> name, ctx |-> ctx]

\* sequences over S of length at most n without repetition (a deps array)
RECURSIVE Arrangements(_, _)
Arrangements(S, n) ==
    IF n = 0 THEN {<<>>}
    ELSE {<<>>} \cup UNION {{<<x>> \o q : q \in Arrangements(S \ {x}, n - 1)} : x \in S}

\* the passes that may throw during one execute call: none, or one of them
Throwers(ids) == {{}} \cup {{x} : x \in ids}

Pass(id, name, reads, writes, deps) ==
    [id |-> id, name |-> name, reads |-> reads, writes |-> writes, deps |-> deps]

\* a RenderPassNode object not seen by the builder before (part_010)
NewPassNodes(names, res) ==
    {Pass(Cardinality({passes[i].id : i \in DOMAIN passes}) + 1, n, r, w, <<>>) :
        n \in names, r \in SUBSET res, w \in SUBSET res}

NameId(n) == CASE n = "Sim" -> 1 [] n = "Draw" -> 2 [] n = "Present" -> 3

\* a RenderPass of the name-declared graph; the pass is identified by its name
NamedPasses(names) ==
    {Pass(NameId(n), n, {}, {}, d) : n \in names, d \in Arrangements(Names, MaxDeps)}

\* the scope object before any call: new ResourceManager(device)
RmCall(op, arg, ret) == [op |-> op, arg |-> arg, ret |-> ret]

RmNew ==
    /\ destroyables = <<>>
    /\ tracked = <<>>
    /\ destroyed = FALSE
    /\ rmCall = RmCall("new", "none", "none")
    /\ rmThrown = "none"
    /\ rmLog = <<>>
    /\ sinceClear = <<>>
    /\ clears = 0

\* no scope object takes part
RmIdle == rmImpl = "unused" /\ RmNew

\* a graph object before any call
GraphNew ==
    /\ passes = <<>>
    /\ resources = {}
    /\ compiled = Uncompiled
    /\ call = Call("new", "", 0)
    /\ thrown = "none"
    /\ log = <<>>

\* no graph object takes part
GraphIdle == impl = "unused" /\ GraphNew

\* no application takes part
AppIdle ==
    /\ appImpl = "unused"
    /\ canvas = [width |-> 0, height |-> 0, dpr |-> 0]
    /\ layout = [cols |-> 0, rows |-> 0]
    /\ gen = 0
    /\ live = {}
    /\ inFlight = <<>>
    /\ resizeInProgress = FALSE
    /\ old = 0
    /\ waitFor = 0
    /\ built = [instanceBytes |-> 0, drawInstances |-> 0, simCols |-> 0, simMaxTrail |-> 0]

\* the tick record before any tick
NoFrame ==
    [acquire |-> "none", callback |-> "none", submit |-> "none",
     rendered |-> FALSE, uncaught |-> FALSE]

\* no render loop takes part
LoopIdle ==
    /\ loopImpl = "unused"
    /\ rafPending = FALSE
    /\ frames = 0
    /\ submits = 0
    /\ lastFrame = NoFrame
    /\ stopped = FALSE

\* the dispatch is not followed invocation by invocation
ThreadsIdle ==
    /\ pc = <<>>
    /\ regs = <<>>
    /\ ref = <<>>

\* no simulation takes part
SimIdle ==
    /\ ThreadsIdle
    /\ slotWrites = {}
    /\ shader = "unused"
    /\ simUniforms = [dt |-> 0, rows |-> 0, cols |-> 0, maxTrail |-> 0, glyphCount |-> 0]
    /\ heads = <<>>
    /\ speeds = <<>>
    /\ lengths = <<>>
    /\ seeds = <<>>
    /\ energies = <<>>
    /\ instances = <<>>
    /\ ticks = 0

\* every subsystem but the named one is out of play
\* no atlas is built
AtlasIdle ==
    /\ atlasImpl = "unused"
    /\ atlasOptions = <<>>
    /\ atlasResult = <<>>

\* no shader loader takes part
LoaderIdle ==
    /\ modules = <<>>
    /\ pending = <<>>
    /\ promises = <<>>
    /\ loads = <<>>
    /\ destroys = 0

DispatchIdle ==
    /\ passCols = 0
    /\ simCols = 0
    /\ workgroups = 0
    /\ ran = {}
    /\ updated = <<>>
    /\ executes = 0

RegistryIdle ==
    /\ regEntries = <<>>
    /\ frozen = FALSE
    /\ callerDescs = <<>>
    /\ regCall = [op |-> "new", name |-> "", desc |-> 0]
    /\ regThrown = "none"
    /\ regCalls = 0

ManagerIdle ==
    /\ mgrBuilt = FALSE
    /\ mgrBuffers = <<>>
    /\ mgrTextures = <<>>
    /\ mgrSamplers = <<>>
    /\ mgrDestroyed = FALSE
    /\ gpuObjects = <<>>
    /\ mgrCall = [op |-> "none", name |-> "", ret |-> 0]
    /\ mgrThrown = "none"
    /\ mgrCalls = 0

StopIdle ==
    /\ stopImpl = "unused"
    /\ rafId = 0
    /\ isActive = FALSE
    /\ rafRequests = {}
    /\ rafCount = 0
    /\ stopCalled = FALSE
    /\ lastTick = [afterStop |-> FALSE, encoded |-> FALSE, submitted |-> FALSE]

HandlerIdle ==
    /\ handlerPc = "none"
    /\ resizeEvents = 0
    /\ lastEvent = "none"

SwapIdle ==
    /\ swapImpl = "none"
    /\ rendererRef = 0
    /\ streamsRef = 0
    /\ instancesBufRef = 0
    /\ currentGrid = 0
    /\ canvasGrid = 0
    /\ resizeTimer = FALSE
    /\ swapHandlers = <<>>
    /\ setsCreated = 0
    /\ destroyCount = <<>>
    /\ swapEvents = 0
    /\ swapFrame = <<>>

TargetIdle ==
    /\ rtImpl = "none"
    /\ rtWidth = 0
    /\ rtHeight = 0
    /\ colorTargets = <<>>
    /\ depthTargets = <<>>
    /\ rtTextures = <<>>
    /\ screenDescs = {}
    /\ deviceTextures = <<>>
    /\ rtCall = <<>>
    /\ rtCalls = 0

IdleExcept(s) ==
    /\ IF s = "graph" THEN TRUE ELSE GraphIdle
    /\ IF s = "rm" THEN TRUE ELSE RmIdle
    /\ IF s \in {"app", "handler"} THEN TRUE ELSE AppIdle
    /\ IF s = "loop" THEN TRUE ELSE LoopIdle
    /\ IF s = "sim" THEN TRUE ELSE SimIdle
    /\ IF s = "atlas" THEN TRUE ELSE AtlasIdle
    /\ IF s = "loader" THEN TRUE ELSE LoaderIdle
    /\ IF s = "dispatch" THEN TRUE ELSE DispatchIdle
    /\ IF s \in {"registry", "manager"} THEN TRUE ELSE RegistryIdle
    /\ IF s = "manager" THEN TRUE ELSE ManagerIdle
    /\ IF s = "stop" THEN TRUE ELSE StopIdle
    /\ IF s = "handler" THEN TRUE ELSE HandlerIdle
    /\ IF s = "swap" THEN TRUE ELSE SwapIdle
    /\ IF s = "target" THEN TRUE ELSE TargetIdle

GraphInit ==
    /\ impl \in {"hazard", "dfs", "deps"}
    /\ GraphNew
    /\ IdleExcept("graph")

\* part_010 RenderGraphBuilder.addPass: this.passes.push(pass)
RenderGraphBuilder_addPass(p) ==
    /\ impl = "hazard"
    /\ ~compiled.ok
    /\ Len(passes) < MaxPasses
    /\ passes' = Append(passes, p)
    /\ call' = Call("addPass", p.name, 0)
    /\ thrown' = "none"
    /\ log' = <<>>
    /\ UNCHANGED <<impl, resources, compiled, nonGraphVars>>

\* part_010 RenderGraphBuilder.assertResourceFree
assertResourceFree(name) == name \notin {r.name : r \in resources}

\* part_010 RenderGraphBuilder.createBuffer / createTexture
createResource(kind, name) ==
    /\ impl = "hazard"
    /\ IF assertResourceFree(name)
       THEN /\ resources' = resources \cup {[name |-> name, kind |-> kind]}
            /\ thrown' = "none"
       ELSE /\ resources' = resources
            /\ thrown' = "resource exists"
    /\ call' = Call("createResource", name, 0)
    /\ log' = <<>>
    /\ UNCHANGED <<impl, passes, compiled, nonGraphVars>>

createBuffer(name) == createResource("buffer", name)

createTexture(name) == createResource("texture", name)

\* part_010 RenderGraphBuilder.compile
compile ==
    /\ impl = "hazard"
    /\ ~compiled.ok
    /\ LET r == compileRenderGraph(passes)
       IN IF r.ok THEN compiled' = r /\ thrown' = "none"
          ELSE compiled' = compiled /\ thrown' = r.error
    /\ call' = Call("compile", "", 0)
    /\ log' = <<>>
    /\ UNCHANGED <<impl, passes, resources, nonGraphVars>>

\* sim/streams.ts RenderGraphBuilder.addPass: a fresh node with empty read/write sets
streams_addPass ==
    /\ impl = "dfs"
    /\ ~compiled.ok
    /\ Len(passes) < MaxPasses
    /\ passes' = Append(passes, Pass(Len(passes) + 1, "node", {}, {}, <<>>))
    /\ call' = Call("addPass", "node", 0)
    /\ thrown' = "none"
    /\ log' = <<>>
    /\ UNCHANGED <<impl, resources, compiled, nonGraphVars>>

\* sim/streams.ts PassBuilder.reads
PassBuilder_reads(i, r) ==
    /\ impl = "dfs"
    /\ ~compiled.ok
    /\ i \in DOMAIN passes
    /\ passes' = [passes EXCEPT ![i].reads = @ \cup {r}]
    /\ call' = Call("reads", "node", 0)
    /\ thrown' = "none"
    /\ log' = <<>>
    /\ UNCHANGED <<impl, resources, compiled, nonGraphVars>>

\* sim/streams.ts PassBuilder.writes
PassBuilder_writes(i, r) ==
    /\ impl = "dfs"
    /\ ~compiled.ok
    /\ i \in DOMAIN passes
    /\ passes' = [passes EXCEPT ![i].writes = @ \cup {r}]
    /\ call' = Call("writes", "node", 0)
    /\ thrown' = "none"
    /\ log' = <<>>
    /\ UNCHANGED <<impl, resources, compiled, nonGraphVars>>

\* sim/streams.ts RenderGraphBuilder.build
build ==
    /\ impl = "dfs"
    /\ ~compiled.ok
    /\ LET r == topologicalSort(passes)
       IN IF r.ok THEN compiled' = r /\ thrown' = "none"
          ELSE compiled' = compiled /\ thrown' = r.error
    /\ call' = Call("compile", "", 0)
    /\ log' = <<>>
    /\ UNCHANGED <<impl, passes, resources, nonGraphVars>>

\* engine/render/render-graph.ts createRenderGraph().addPass
createRenderGraph_addPass(p) ==
    /\ impl = "deps"
    /\ IF HasName(passes, p.name)
       THEN passes' = passes /\ thrown' = "pass exists"
       ELSE passes' = Append(passes, p) /\ thrown' = "none"
    /\ call' = Call("addPass", p.name, 0)
    /\ log' = <<>>
    /\ UNCHANGED <<impl, resources, compiled, nonGraphVars>>

\* engine/render/render-graph.ts createRenderGraph().removePass
removePass(name) ==
    /\ impl = "deps"
    /\ passes' = SelectSeq(passes, LAMBDA q : q.name # name)
    /\ call' = Call("removePass", name, 0)
    /\ thrown' = "none"
    /\ log' = <<>>
    /\ UNCHANGED <<impl, resources, compiled, nonGraphVars>>

\* the loop starting at the second pass of the order
runPasses_skipFirst(order, ctx, throwers, catch) ==
    IF order = <<>> THEN [log |-> <<>>, thrown |-> "none"]
    ELSE [log |-> [k \in 1..(Len(order) - 1) |-> <<order[k + 1], ctx>>], thrown |-> "none"]

\* for (const pass of ordered) pass.execute(ctx): the invocations made, and whether
\* the loop ended by an exception; catch = the loop wraps each call in try/catch
RECURSIVE runPasses(_, _, _, _)
runPasses(order, ctx, throwers, catch) ==
    IF order = <<>> THEN [log |-> <<>>, thrown |-> "none"]
    ELSE IF Head(order) \in throwers /\ ~catch
         THEN [log |-> <<<<Head(order), ctx>>>>, thrown |-> "pass threw"]
         ELSE LET rest == runPasses(Tail(order), ctx, throwers, catch)
              IN [log |-> <<<<Head(order), ctx>>>> \o rest.log, thrown |-> rest.thrown]

\* part_010 CompiledRenderGraph.execute and sim/streams.ts RenderGraph.execute
execute(ctx, throwers) ==
    /\ impl \in {"hazard", "dfs"}
    /\ compiled.ok
    /\ LET r == runPasses(compiled.order, ctx, throwers, FALSE)
       IN log' = r.log /\ thrown' = r.thrown
    /\ call' = Call("execute", "", ctx)
    /\ UNCHANGED <<impl, passes, resources, compiled, nonGraphVars>>

\* engine/render/render-graph.ts createRenderGraph().execute: sorts, then runs each
\* pass inside try/catch
createRenderGraph_execute(ctx, throwers) ==
    /\ impl = "deps"
    /\ LET c == topoSort(passes)
       IN IF c.ok
          THEN LET r == runPasses(c.order, ctx, throwers, TRUE)
               IN log' = r.log /\ thrown' = r.thrown
          ELSE log' = <<>> /\ thrown' = c.error
    /\ call' = Call("execute", "", ctx)
    /\ UNCHANGED <<impl, passes, resources, compiled, nonGraphVars>>

PassIds == {passes[i].id : i \in DOMAIN passes}

\* the builder calls, with the pass names and resource handles the caller may use
BuilderNext(names, res) ==
    \/ \E p \in NewPassNodes(names, res) \cup Range(passes) : RenderGraphBuilder_addPass(p)
    \/ compile
    \/ streams_addPass
    \/ \E i \in 1..MaxPasses, r \in res : PassBuilder_reads(i, r)
    \/ \E i \in 1..MaxPasses, r \in res : PassBuilder_writes(i, r)
    \/ build
    \/ \E p \in NamedPasses(Names) : createRenderGraph_addPass(p)
    \/ \E n \in Names : removePass(n)
    \/ \E c \in Ctxs, t \in Throwers(PassIds) : createRenderGraph_execute(c, t)

\* building and compiling graphs over the resources I and C
GraphNext == BuilderNext({"pass"}, Res)

SpecGraph == GraphInit /\ [][GraphNext]_vars

\* building, compiling and executing graphs over one resource
ExecNext ==
    \/ BuilderNext({"pass"}, {"I"})
    \/ \E c \in Ctxs, t \in Throwers(PassIds) : execute(c, t)

SpecExec == GraphInit /\ [][ExecNext]_vars

\* registering passes and resources by name
NamesNext ==
    \/ \E p \in NewPassNodes(Names, {}) \cup Range(passes) : RenderGraphBuilder_addPass(p)
    \/ \E n \in Res : createBuffer(n)
    \/ \E n \in Res : createTexture(n)
    \/ \E p \in NamedPasses(Names) : createRenderGraph_addPass(p)
    \/ \E n \in Names : removePass(n)

SpecNames == GraphInit /\ [][NamesNext]_vars

----------------------------------------------------------------------------
(* Render graph: properties *)

\* position of a pass id in an order (0 when absent)
RECURSIVE Pos(_, _, _)
Pos(order, id, k) ==
    IF k > Len(order) THEN 0
    ELSE IF order[k] = id THEN k ELSE Pos(order, id, k + 1)

Occurrences(order, id) == Cardinality({k \in DOMAIN order : order[k] = id})

\* every pass object of the list is registered once
RegisteredOnce == \A i, j \in DOMAIN passes : passes[i].id = passes[j].id => i = j

\* the declared dependency: b must run after a
MustPrecede(a, b) ==
    IF impl = "deps"
    THEN a.name \in Range(b.deps)
    ELSE a.id # b.id /\ a.writes \cap b.reads # {}

\* the declared dependency graph has a cycle (a path from some pass back to itself)
RECURSIVE Reach(_, _)
Reach(from, n) ==
    IF n = 0 THEN from
    ELSE Reach(from \cup {j \in DOMAIN passes :
                            \E i \in from : MustPrecede(passes[i], passes[j])}, n - 1)

HasCycle ==
    \E i \in DOMAIN passes :
        i \in Reach({j \in DOMAIN passes : MustPrecede(passes[i], passes[j])}, Len(passes))

\* every deps entry names a registered pass
DepsKnown == \A i \in DOMAIN passes : \A k \in DOMAIN passes[i].deps :
                HasName(passes, passes[i].deps[k])

\* a compile has just been attempted: compile()/build(), or the sort inside execute()
CompileAttempted ==
    IF impl = "deps" THEN call.op = "execute" ELSE call.op = "compile"

\* that compile returned an order
CompileSucceeded == CompileAttempted /\ thrown = "none"

\* the order it returned (the name-declared graph shows it as the order of invocation)
CompiledOrder ==
    IF impl = "deps" THEN [k \in DOMAIN log |-> log[k][1]] ELSE compiled.order

IsSimDrawPresent(sim, draw, present) ==
    IF impl = "deps"
    THEN /\ sim.name = "Sim" /\ sim.deps = <<>>
         /\ draw.name = "Draw" /\ draw.deps = <<"Sim">>
         /\ present.name = "Present" /\ present.deps = <<"Draw">>
    ELSE /\ sim.reads = {} /\ sim.writes = {"I"}
         /\ draw.reads = {"I"} /\ draw.writes = {"C"}
         /\ present.reads = {"C"} /\ present.writes = {}

\* C3: the order a successful compile returns is a topological order of the declared
\* dependencies, whatever the insertion order: a pass that writes what another pass
\* reads (or that another pass names in deps) comes first; Sim (writes I),
\* Draw (reads I, writes C), Present (reads C) come out as [Sim, Draw, Present].
C3_TopologicalOrder ==
    CompileSucceeded =>
        /\ \A i, j \in DOMAIN passes :
              MustPrecede(passes[i], passes[j]) =>
                 /\ Pos(CompiledOrder, passes[i].id, 1) > 0
                 /\ Pos(CompiledOrder, passes[i].id, 1) < Pos(CompiledOrder, passes[j].id, 1)
        /\ \A i, j, k \in DOMAIN passes :
              (Len(passes) = 3 /\ IsSimDrawPresent(passes[i], passes[j], passes[k])) =>
                 CompiledOrder = <<passes[i].id, passes[j].id, passes[k].id>>

\* Present, Draw, Sim were inserted in reverse and compiled to [Sim, Draw, Present]
C3_Witness ==
    /\ impl = "hazard"
    /\ CompileSucceeded
    /\ Len(passes) = 3
    /\ IsSimDrawPresent(passes[3], passes[2], passes[1])
    /\ CompiledOrder = <<passes[3].id, passes[2].id, passes[1].id>>

CompileOutcome == IF thrown = "none" THEN Ok(CompiledOrder) ELSE Err(thrown)

\* the implementation's ordering function applied to a pass list
Sorted(ps) == IF impl = "hazard" THEN compileRenderGraph(ps) ELSE topologicalSort(ps)

\* C5 (as claimed): a graph of two passes that both write the same resource, neither
\* reading what the other writes, compiles to an order holding both passes.
C5_TwoWritersCompile ==
    (/\ impl \in {"hazard", "dfs"}
     /\ CompileAttempted
     /\ Len(passes) = 2
     /\ passes[1].id # passes[2].id
     /\ passes[1].writes \cap passes[2].writes # {}
     /\ passes[1].reads \cap passes[2].writes = {}
     /\ passes[2].reads \cap passes[1].writes = {})
    => /\ thrown = "none"
       /\ Range(CompiledOrder) = {passes[1].id, passes[2].id}

\* no pass of the list writes any resource p reads
ReadsOnlyUnwritten(p) ==
    /\ p.reads # {}
    /\ \A j \in DOMAIN passes : passes[j].writes \cap p.reads = {}

\* C6: a pass whose reads are written by no pass does not make compilation fail:
\* those reads give it no incoming edge (its indegree counts nothing for them), the
\* compile ends exactly as it does with those reads removed, and a returned order
\* holds the pass.
C6_UnwrittenReadIsAvailable ==
    (impl \in {"hazard", "dfs"} /\ CompileAttempted /\ RegisteredOnce) =>
        \A i \in DOMAIN passes :
            ReadsOnlyUnwritten(passes[i]) =>
                /\ IF impl = "hazard"
                   THEN hazardInDegree(passes, passes[i].id) =
                            Cardinality({j \in DOMAIN passes :
                                j # i /\ passes[j].writes \cap passes[i].writes # {}})
                   ELSE \A j \in DOMAIN passes : ~dependsOn(passes[i], passes[j])
                /\ CompileOutcome = Sorted([passes EXCEPT ![i].reads = {}])
                /\ thrown = "none" => Pos(CompiledOrder, passes[i].id, 1) > 0

\* two passes reading I, which nothing writes, compiled to an order holding both
C6_Witness ==
    /\ impl \in {"hazard", "dfs"}
    /\ CompileAttempted
    /\ Len(passes) = 2
    /\ passes[1].reads = {"I"} /\ passes[1].writes = {}
    /\ passes[2].reads = {"I"} /\ passes[2].writes = {"C"}
    /\ thrown = "none"
    /\ Len(CompiledOrder) = 2

\* C7: an execute call on a compiled graph whose passes complete normally invokes
\* every registered pass exactly once, in the compiled order, each with the frame
\* context the call was given.
C7_ExecuteRunsAllOnce ==
    (call.op = "execute" /\ thrown = "none") =>
        LET order == IF impl = "deps" THEN topoSort(passes).order ELSE compiled.order
        IN /\ [k \in DOMAIN log |-> log[k][1]] = order
           /\ \A i \in DOMAIN passes :
                 Cardinality({k \in DOMAIN log : log[k][1] = passes[i].id}) = 1
           /\ \A k \in DOMAIN log : log[k][2] = call.ctx

\* three passes were executed in one call with context 2
C7_Witness ==
    /\ call.op = "execute"
    /\ thrown = "none"
    /\ call.ctx = 2
    /\ Len(passes) = 3
    /\ Len(log) = 3
    /\ impl = "hazard"
    /\ \E i, j \in DOMAIN passes : MustPrecede(passes[i], passes[j])

\* C8 (as claimed): addPass, createBuffer or createTexture under a name that is
\* already registered throws and leaves the passes and resources as they were.
C8_DuplicateNameThrows ==
    [][/\ (call'.op = "addPass" /\ HasName(passes, call'.name)) =>
              (thrown' # "none" /\ passes' = passes /\ resources' = resources)
       /\ (call'.op = "createResource" /\ ~assertResourceFree(call'.name)) =>
              (thrown' # "none" /\ passes' = passes /\ resources' = resources)]_vars

----------------------------------------------------------------------------
(* Resource lifetime managers: part_014 (arrays and a destroyed flag) and
   part_009 (a Set of tracked resources) *)

RmInit ==
    /\ rmImpl \in {"array", "set"}
    /\ RmNew
    /\ IdleExcept("rm")

\* a liveness check that never fails
assertAlive_ignored == TRUE

\* part_014 ResourceManager.assertAlive
assertAlive == ~destroyed

\* part_014 ResourceManager.trackDestroyable
trackDestroyable(r) ==
    /\ rmImpl = "array"
    /\ HasDestroy(r)
    /\ IF assertAlive
       THEN /\ Len(sinceClear) < MaxTracked
            /\ destroyables' = Append(destroyables, r)
            /\ tracked' = Append(tracked, r)
            /\ rmCall' = RmCall("trackDestroyable", r, r)
            /\ rmThrown' = "none"
            /\ sinceClear' = Append(sinceClear, <<r, "trackDestroyable">>)
       ELSE /\ rmCall' = RmCall("trackDestroyable", r, "none")
            /\ rmThrown' = "destroyed"
            /\ UNCHANGED <<destroyables, tracked, sinceClear>>
    /\ rmLog' = <<>>
    /\ UNCHANGED <<rmImpl, clears, destroyed, nonRmVars>>

\* part_014 ResourceManager.track
track(r) ==
    /\ rmImpl = "array"
    /\ IF assertAlive
       THEN /\ Len(sinceClear) < MaxTracked
            /\ tracked' = Append(tracked, r)
            /\ rmCall' = RmCall("track", r, r)
            /\ rmThrown' = "none"
            /\ sinceClear' = Append(sinceClear, <<r, "track">>)
       ELSE /\ rmCall' = RmCall("track", r, "none")
            /\ rmThrown' = "destroyed"
            /\ UNCHANGED <<tracked, sinceClear>>
    /\ rmLog' = <<>>
    /\ UNCHANGED <<rmImpl, clears, destroyables, destroyed, nonRmVars>>

\* destroyAll that destroys the resources and keeps the lists and the flag
destroyAll_keepsLists ==
    /\ rmImpl = "array"
    /\ rmLog' = destroyables
    /\ rmCall' = RmCall("destroyAll", "none", "none")
    /\ rmThrown' = "none"
    /\ sinceClear' = <<>>
    /\ clears' = Min(clears + 1, MaxClears)
    /\ UNCHANGED <<rmImpl, destroyables, tracked, destroyed, nonRmVars>>

\* part_014 ResourceManager.destroyAll
destroyAll ==
    /\ rmImpl = "array"
    /\ IF destroyed
       THEN /\ rmLog' = <<>>
            /\ UNCHANGED <<destroyables, tracked, destroyed>>
       ELSE /\ rmLog' = destroyables
            /\ destroyables' = <<>>
            /\ tracked' = <<>>
            /\ destroyed' = TRUE
    /\ rmCall' = RmCall("destroyAll", "none", "none")
    /\ rmThrown' = "none"
    /\ sinceClear' = <<>>
    /\ clears' = Min(clears + 1, MaxClears)
    /\ UNCHANGED <<rmImpl, nonRmVars>>

\* Set.add: the element is appended unless it is already a member
SetAdd(set, r) == IF r \in Range(set) THEN set ELSE Append(set, r)

\* part_009 ResourceManager.track; r may be null
Set_track(r) ==
    /\ rmImpl = "set"
    /\ IF r = "null"
       THEN UNCHANGED <<tracked, sinceClear>>
       ELSE /\ Len(sinceClear) < MaxTracked
            /\ tracked' = SetAdd(tracked, r)
            /\ sinceClear' = Append(sinceClear, <<r, "track">>)
    /\ rmCall' = RmCall("track", r, "undefined")
    /\ rmThrown' = "none"
    /\ rmLog' = <<>>
    /\ UNCHANGED <<rmImpl, clears, destroyables, destroyed, nonRmVars>>

\* part_009 ResourceManager.createBuffer: a buffer the device has just created
Set_createBuffer(r) ==
    /\ rmImpl = "set"
    /\ HasDestroy(r)
    /\ r \notin Range(tracked)
    /\ Len(sinceClear) < MaxTracked
    /\ tracked' = SetAdd(tracked, r)
    /\ sinceClear' = Append(sinceClear, <<r, "createBuffer">>)
    /\ rmCall' = RmCall("createBuffer", "none", r)
    /\ rmThrown' = "none"
    /\ rmLog' = <<>>
    /\ UNCHANGED <<rmImpl, clears, destroyables, destroyed, nonRmVars>>

\* part_009 ResourceManager.destroyAll: destroy() on every member that has one
Set_destroyAll ==
    /\ rmImpl = "set"
    /\ rmLog' = SelectSeq(tracked, HasDestroy)
    /\ tracked' = <<>>
    /\ rmCall' = RmCall("destroyAll", "none", "none")
    /\ rmThrown' = "none"
    /\ sinceClear' = <<>>
    /\ clears' = Min(clears + 1, MaxClears)
    /\ UNCHANGED <<rmImpl, destroyables, destroyed, nonRmVars>>

RmNext ==
    \/ \E r \in Resources : trackDestroyable(r)
    \/ \E r \in Resources : track(r)
    \/ destroyAll
    \/ \E r \in Resources \cup {"null"} : Set_track(r)
    \/ \E r \in Resources : Set_createBuffer(r)
    \/ Set_destroyAll

SpecRM == RmInit /\ [][RmNext]_vars

\* the resources registered for destruction since the scope was created or last
\* cleared: given to trackDestroyable, or (Set-based manager) tracked and destroyable
RegisteredForDestroy ==
    {sinceClear[k][1] : k \in {n \in DOMAIN sinceClear :
        IF rmImpl = "array" THEN sinceClear[n][2] = "trackDestroyable"
        ELSE HasDestroy(sinceClear[n][1])}}

\* how many times r was registered for destruction on the array-based manager
Registrations(r) ==
    Cardinality({n \in DOMAIN sinceClear :
        sinceClear[n] = <<r, "trackDestroyable">>})

DestroyCalls(calls, r) == Cardinality({k \in DOMAIN calls : calls[k] = r})

ScopeEmpty == destroyables = <<>> /\ tracked = <<>>

\* C9 (as claimed): trackDestroyable returns its argument and registers it; destroyAll
\* calls destroy exactly once on every resource registered since the scope was
\* created or last cleared and empties the scope; a second destroyAll destroys nothing.
C9_DestroyAllOncePerResource ==
    [][/\ (rmCall'.op = "trackDestroyable" /\ rmThrown' = "none") =>
              (rmCall'.ret = rmCall'.arg /\ rmCall'.arg \in Range(destroyables'))
       /\ rmCall'.op = "destroyAll" =>
              /\ \A r \in Resources :
                    DestroyCalls(rmLog', r) = IF r \in RegisteredForDestroy THEN 1 ELSE 0
              /\ ScopeEmpty'
       /\ (rmCall.op = "destroyAll" /\ rmCall'.op = "destroyAll") => rmLog' = <<>>]_vars

\* C9 (amended): as claimed, except that the array-based manager calls destroy once
\* per registration: a resource given to trackDestroyable k times is destroyed k times.
C9_DestroyAllOncePerRegistration ==
    [][/\ (rmCall'.op = "trackDestroyable" /\ rmThrown' = "none") =>
              (rmCall'.ret = rmCall'.arg /\ rmCall'.arg \in Range(destroyables'))
       /\ rmCall'.op = "destroyAll" =>
              /\ \A r \in Resources :
                    DestroyCalls(rmLog', r) =
                        IF rmImpl = "array" THEN Registrations(r)
                        ELSE IF r \in RegisteredForDestroy THEN 1 ELSE 0
              /\ ScopeEmpty'
       /\ (rmCall.op = "destroyAll" /\ rmCall'.op = "destroyAll") => rmLog' = <<>>]_vars

\* destroyAll has just destroyed bufA, registered twice on the array-based manager,
\* and bufB
C9_Witness ==
    /\ rmImpl = "array"
    /\ rmCall.op = "destroyAll"
    /\ DestroyCalls(rmLog, "bufA") = 2
    /\ DestroyCalls(rmLog, "bufB") = 1
    /\ ScopeEmpty

\* C10 (as claimed): after destroyAll the scope can be reused: track and
\* trackDestroyable succeed again, and a later destroyAll releases exactly the
\* resources registered after the first one.
C10_ScopeReusable ==
    [][/\ rmCall'.op \in {"track", "trackDestroyable"} => rmThrown' = "none"
       /\ rmCall'.op = "destroyAll" => Range(rmLog') = RegisteredForDestroy]_vars

\* C10 (amended): the Set-based scope can be reused after destroyAll as claimed; on
\* the array-based manager destroyAll is final: track and trackDestroyable succeed
\* before it and throw after it, registering nothing, and a later destroyAll
\* releases nothing.
C10_ReusableUnlessFlagged ==
    [][/\ (rmCall'.op \in {"track", "trackDestroyable"} /\ rmImpl = "set") =>
              rmThrown' = "none"
       /\ (rmCall'.op \in {"track", "trackDestroyable"} /\ rmImpl = "array") =>
              /\ rmThrown' = (IF destroyed THEN "destroyed" ELSE "none")
              /\ destroyed => (ScopeEmpty' /\ sinceClear' = <<>>)
       /\ rmCall'.op = "destroyAll" =>
              /\ Range(rmLog') = RegisteredForDestroy
              /\ (rmImpl = "array" /\ destroyed) => rmLog' = <<>>]_vars

\* the Set-based scope was cleared, bufB was tracked afterwards, and the next
\* destroyAll has just destroyed bufB alone
C10_Witness ==
    /\ rmImpl = "set"
    /\ clears = MaxClears
    /\ rmCall.op = "destroyAll"
    /\ rmLog = <<"bufB">>
    /\ ScopeEmpty

----------------------------------------------------------------------------
(* Frame loop combined with resize handling: app/main.ts (synchronous resize
   listener) and main.ts (asynchronous handleResize), driven by the
   requestAnimationFrame loop of part_018 *)

\* surface generations built in one run
MaxGenerations == 3

\* command buffers the GPU queue holds at once
MaxInFlight == 2

\* atlas.cellWidth and atlas.cellHeight
CellWidth == 16

CellHeight == 16

MIN_TRAIL == 4

\* a device pixel ratio is a count of halves: DprUnit stands for 1.0
DprUnit == 2

\* window.devicePixelRatio: 1.0 and 1.5
Dprs == {2, 3}

Max(a, b) == IF a > b THEN a ELSE b

\* Math.ceil(a / b) for positive integers
CeilDiv(a, b) == (a + b - 1) \div b

\* CanvasResizer.resize: the backing size in physical pixels
CanvasResizer_resize(clientWidth, clientHeight, dpr) ==
    [width |-> Max(1, (clientWidth * dpr) \div DprUnit),
     height |-> Max(1, (clientHeight * dpr) \div DprUnit),
     dpr |-> dpr]

\* canvas sizes swapChain.resize() reports; the narrowest one holds no column at
\* device pixel ratio 1
CanvasSizes ==
    {CanvasResizer_resize(w, h, dpr) : w \in {8, 16, 24, 32}, h \in {16, 32}, dpr \in Dprs}

\* app/main.ts computeScreenLayout
computeScreenLayout(size) ==
    LET widthCSS2 == size.width * size.dpr
        heightCSS2 == size.height * size.dpr
        cols == widthCSS2 \div (DprUnit * CellWidth)
        rows == CeilDiv(heightCSS2, DprUnit * CellHeight)
        maxTrail == Max(MIN_TRAIL, rows)
    IN [viewport |-> size, cols |-> cols, rows |-> rows,
        maxTrail |-> maxTrail, count |-> cols * maxTrail]

\* main.ts computeGridLayout
computeGridLayout(size) ==
    LET widthCSS2 == size.width * size.dpr
        heightCSS2 == size.height * size.dpr
        cols == widthCSS2 \div (DprUnit * CellWidth)
        rows == CeilDiv(heightCSS2, DprUnit * CellHeight)
        maxTrail == Max(MIN_TRAIL, rows)
    IN [cols |-> cols, rows |-> rows,
        maxTrail |-> maxTrail, instanceCount |-> cols * maxTrail]

Resource(kind, g) == [kind |-> kind, gen |-> g]

\* app/main.ts buildRegistry + new ResourceManager: resources created eagerly
buildRegistry(g) == {Resource("InstanceBuffer", g), Resource("SceneColor", g)}

\* app/main.ts buildRenderGraph: SimulationPassBuilder.build creates the column
\* state buffers (createStreamBuffers) and keeps them in the builder
buildRenderGraph(g) == {Resource("StreamBuffers", g)}

\* main.ts createRenderBundle: the instance buffer and the renderer's buffers
createRenderBundle(g) == {Resource("InstanceBuffer", g), Resource("StreamBuffers", g)}

\* platform/webgpu/layouts.ts InstanceLayout.SIZE
InstanceLayout_SIZE == 48

\* the byte size of the instance buffer: app/main.ts buildRegistry declares
\* count * SIZE; main.ts createRenderBundle calls createInstanceBuffer
createInstanceBuffer(l) ==
    IF appImpl = "listener" THEN l.count * InstanceLayout_SIZE
    ELSE Max(4, l.instanceCount * InstanceLayout_SIZE)

\* a draw pass that draws one instance per column
drawInstances_perColumn(l) == l.cols

\* the instance count the draw pass is built with and passes to pass.draw
drawInstances(l) == IF appImpl = "listener" THEN l.count ELSE l.instanceCount

\* the sizes a build of the surface from layout l fixes: the instance buffer, the
\* draw pass, and the cols and maxTrail written to the simulation uniforms
buildSizes(l) ==
    [instanceBytes |-> createInstanceBuffer(l), drawInstances |-> drawInstances(l),
     simCols |-> l.cols, simMaxTrail |-> l.maxTrail]

\* the surface resources of generation g
Surface(g) ==
    IF appImpl = "listener" THEN buildRegistry(g) \cup buildRenderGraph(g)
    ELSE createRenderBundle(g)

AppInit ==
    /\ appImpl \in {"listener", "handleResize"}
    /\ canvas \in CanvasSizes
    /\ layout = IF appImpl = "listener" THEN computeScreenLayout(canvas)
                ELSE computeGridLayout(canvas)
    /\ gen = 1
    /\ live = Surface(1)
    /\ inFlight = <<>>
    /\ resizeInProgress = FALSE
    /\ old = 0
    /\ waitFor = 0
    /\ built = buildSizes(layout)
    /\ IdleExcept("app")

\* part_018 startRenderLoop.tick: the frame callback records the passes of the current
\* render graph, which reference the current surface resources, and the command
\* buffer is submitted; main.ts skips the graph when no swap-chain view is acquired
tick(view) ==
    /\ appImpl \in {"listener", "handleResize"}
    /\ Len(inFlight) < MaxInFlight
    /\ inFlight' = Append(inFlight,
                          IF appImpl = "handleResize" /\ ~view THEN {} ELSE Surface(gen))
    /\ UNCHANGED <<appImpl, canvas, layout, gen, live, resizeInProgress, old, waitFor, built,
                   nonAppVars>>

\* the GPU finishes the oldest submitted command buffer
GpuComplete ==
    /\ inFlight # <<>>
    /\ inFlight' = Tail(inFlight)
    /\ waitFor' = Max(waitFor - 1, 0)
    /\ UNCHANGED <<appImpl, canvas, layout, gen, live, resizeInProgress, old, built, nonAppVars>>

\* app/main.ts window 'resize' listener
resizeListener(size) ==
    /\ appImpl = "listener"
    /\ gen < MaxGenerations
    /\ canvas' = size
    /\ IF size = layout.viewport
       THEN UNCHANGED <<layout, live, gen, built>>
       ELSE /\ layout' = computeScreenLayout(size)
            /\ built' = buildSizes(computeScreenLayout(size))
            /\ live' = (live \ buildRegistry(gen))
                          \cup buildRegistry(gen + 1) \cup buildRenderGraph(gen + 1)
            /\ gen' = gen + 1
    /\ UNCHANGED <<appImpl, inFlight, resizeInProgress, old, waitFor, nonAppVars>>

\* main.ts handleResize up to its await of device.queue.onSubmittedWorkDone()
handleResize(size) ==
    /\ appImpl = "handleResize"
    /\ gen < MaxGenerations
    /\ canvas' = size
    /\ LET newLayout == computeGridLayout(size)
       IN IF resizeInProgress
             \/ (newLayout.cols = layout.cols /\ newLayout.rows = layout.rows)
          THEN UNCHANGED <<layout, gen, live, resizeInProgress, old, waitFor, built>>
          ELSE /\ old' = gen
               /\ live' = live \cup createRenderBundle(gen + 1)
               /\ gen' = gen + 1
               /\ layout' = newLayout
               /\ built' = buildSizes(newLayout)
               /\ waitFor' = Len(inFlight)
               /\ resizeInProgress' = TRUE
    /\ UNCHANGED <<appImpl, inFlight, nonAppVars>>

\* main.ts handleResize after the await: old.instances.destroy(); old.renderer.destroy()
handleResize_resume ==
    /\ appImpl = "handleResize"
    /\ resizeInProgress
    /\ waitFor = 0
    /\ live' = live \ createRenderBundle(old)
    /\ old' = 0
    /\ resizeInProgress' = FALSE
    /\ UNCHANGED <<appImpl, canvas, layout, gen, inFlight, waitFor, built, nonAppVars>>

AppNext ==
    \/ \E view \in BOOLEAN : tick(view)
    \/ GpuComplete
    \/ \E size \in CanvasSizes : resizeListener(size)
    \/ \E size \in CanvasSizes : handleResize(size)
    \/ handleResize_resume

SpecApp == AppInit /\ [][AppNext]_vars

\* C1 (as claimed): a surface resource is destroyed only when no command buffer that
\* references it is submitted and not yet completed, so every command buffer in
\* flight references live resources only.
C1_DestroyedOnlyWhenIdle ==
    \A k \in DOMAIN inFlight : inFlight[k] \subseteq live

\* C13 (as claimed): once every resize handler has finished, the active grid layout
\* is the layout of the current canvas size: no resize was lost or overtaken.
C13_LayoutFollowsCanvas ==
    ~resizeInProgress =>
        /\ layout.cols = computeGridLayout(canvas).cols
        /\ layout.rows = computeGridLayout(canvas).rows

\* C2 (as claimed): once a layout-changing resize has been handled, no surface
\* resource of a previous generation is alive and every surface resource of the
\* current generation is.
C2_PreviousGenerationDestroyed ==
    ~resizeInProgress => live = Surface(gen)

----------------------------------------------------------------------------
(* The requestAnimationFrame loop: startRenderLoop of part_009 (guarded),
   part_015 (unguarded) and part_018 (frame callback of main.ts, which acquires
   the view through SwapChainController.getCurrentView) *)

\* ticks and submissions counted in one run
MaxFrames == 3

Frame(acquire, callback, submit, rendered, uncaught) ==
    [acquire |-> acquire, callback |-> callback, submit |-> submit,
     rendered |-> rendered, uncaught |-> uncaught]

LoopInit ==
    /\ loopImpl \in {"part_009", "part_015", "part_018"}
    /\ rafPending = TRUE
    /\ frames = 0
    /\ submits = 0
    /\ lastFrame = NoFrame
    /\ stopped = FALSE
    /\ IdleExcept("loop")

\* gpu/swap-chain.ts SwapChainController.getCurrentView: null when
\* getCurrentTexture().createView() throws
getCurrentView(texture) == IF texture = "throws" THEN "null" ELSE "view"

\* the bookkeeping of one tick that got as far as (or past) the submission
Ticked(f, submitted) ==
    /\ lastFrame' = f
    /\ frames' = Min(frames + 1, MaxFrames)
    /\ submits' = IF submitted THEN Min(submits + 1, MaxFrames) ELSE submits
    /\ UNCHANGED <<loopImpl, stopped, nonLoopVars>>

\* part_009 startRenderLoop.frame: texture, cb and sub are what getCurrentTexture,
\* the frame callback and queue.submit do ("throws" or not)
frame_009(texture, cb, sub) ==
    /\ loopImpl = "part_009"
    /\ rafPending
    /\ IF texture = "throws"
       THEN /\ rafPending' = TRUE
            /\ Ticked(Frame("throws", "none", "none", FALSE, FALSE), FALSE)
       ELSE /\ rafPending' = TRUE
            /\ Ticked(Frame("view", cb, sub, cb = "ok", FALSE), sub = "ok")

\* part_015 startRenderLoop.frame: nothing is caught, so the first throw ends the
\* callback before requestAnimationFrame(frame)
frame_015(texture, cb, sub) ==
    /\ loopImpl = "part_015"
    /\ rafPending
    /\ IF texture = "throws"
       THEN /\ rafPending' = FALSE
            /\ Ticked(Frame("throws", "none", "none", FALSE, TRUE), FALSE)
       ELSE IF cb = "throws"
       THEN /\ rafPending' = FALSE
            /\ Ticked(Frame("view", "throws", "none", FALSE, TRUE), FALSE)
       ELSE IF sub = "throws"
       THEN /\ rafPending' = FALSE
            /\ Ticked(Frame("view", "ok", "throws", TRUE, TRUE), FALSE)
       ELSE /\ rafPending' = TRUE
            /\ Ticked(Frame("view", "ok", "ok", TRUE, FALSE), TRUE)

\* part_018 startRenderLoop.tick with the frame callback of main.ts 234-239:
\* view = frame.acquireView(); if (!view) return; app.renderGraph.execute(...)
tick_018(texture, cb, sub) ==
    /\ loopImpl = "part_018"
    /\ rafPending
    /\ LET view == getCurrentView(texture)
       IN IF view # "null" /\ cb = "throws"
          THEN /\ rafPending' = FALSE
               /\ Ticked(Frame(view, "throws", "none", FALSE, TRUE), FALSE)
          ELSE IF sub = "throws"
          THEN /\ rafPending' = FALSE
               /\ Ticked(Frame(view, "ok", "throws", view # "null", TRUE), FALSE)
          ELSE /\ rafPending' = TRUE
               /\ Ticked(Frame(view, "ok", "ok", view # "null", FALSE), TRUE)

\* part_009 / part_015 stop(), called between two ticks: cancelAnimationFrame(rafId)
stop ==
    /\ loopImpl \in {"part_009", "part_015"}
    /\ rafPending' = FALSE
    /\ stopped' = TRUE
    /\ UNCHANGED <<loopImpl, frames, submits, lastFrame, nonLoopVars>>

Outcomes == {"ok", "throws"}

LoopNext ==
    \/ \E texture, cb, sub \in Outcomes : frame_009(texture, cb, sub)
    \/ \E texture, cb, sub \in Outcomes : frame_015(texture, cb, sub)
    \/ \E texture, cb, sub \in Outcomes : tick_018(texture, cb, sub)
    \/ stop

SpecLoop == LoopInit /\ [][LoopNext]_vars

\* C11 (as claimed): a frame whose acquisition of the output view failed (threw or
\* yielded nothing) renders nothing and leaves the next frame scheduled, as long
\* as nobody stops the loop.
C11_FailedAcquireSkipsFrame ==
    (lastFrame.acquire \in {"throws", "null"} /\ ~stopped) =>
        (~lastFrame.rendered /\ rafPending)

\* C12 (as claimed): a tick in which the frame callback (a render-graph pass) threw
\* leaves the next animation-frame tick scheduled, as long as nobody stops the loop.
C12_ThrowingCallbackKeepsLoop ==
    (lastFrame.callback = "throws" /\ ~stopped) => rafPending

\* ---------------------------------------------------------------------------
\* The simulation compute shaders: part_013, part_021 and sim/gpu-update.wgsl
\* ---------------------------------------------------------------------------

MaxTicks == 2

\* sim.glyphCount, the number of glyphs in the atlas
GlyphCount == 5

\* sim.cols of the modelled grids
SimCols == 2

\* an f32 of the column state is the integer number of 2^-18 units it holds; the
\* sums, differences and products by dt the shaders compute on the values of this
\* model are exact in f32 (24 significant bits)
ONE == 262144

\* a u32 is the pair of its 16-bit halves
W16 == 65536

U32(hi, lo) == [hi |-> hi, lo |-> lo]

\* u32 addition, wrapping
Add32(a, b) ==
    LET lo == a.lo + b.lo
    IN U32((a.hi + b.hi + lo \div W16) % W16, lo % W16)

\* the low and the high 16 bits of the product of two 16-bit numbers
MulLow16(a, b) == (((a * (b \div 256)) % 256) * 256 + a * (b % 256)) % W16

MulHigh16(a, b) ==
    LET t1 == a * (b \div 256)
        t2 == a * (b % 256)
    IN t1 \div 256 + ((t1 % 256) * 256 + t2) \div W16

\* u32 multiplication, wrapping
Mul32(a, b) ==
    U32((MulHigh16(a.lo, b.lo) + MulLow16(a.hi, b.lo) + MulLow16(a.lo, b.hi)) % W16,
        MulLow16(a.lo, b.lo))

RECURSIVE Xor16(_, _)
Xor16(a, b) ==
    IF a = 0 THEN b
    ELSE IF b = 0 THEN a
    ELSE 2 * Xor16(a \div 2, b \div 2) + ((a + b) % 2)

Xor32(a, b) == U32(Xor16(a.hi, b.hi), Xor16(a.lo, b.lo))

\* v >> 16u and v >> 15u
Shr16(a) == U32(0, a.hi)

Shr15(a) == U32(a.hi \div 32768, (a.hi % 32768) * 2 + a.lo \div 32768)

\* v % n for a small n
Mod32(a, n) == ((a.hi % n) * (W16 % n) + a.lo) % n

\* 1664525u
LCG_A == U32(25, 26125)

\* 1013904223u
LCG_C == U32(15470, 62303)

\* part_021 HASH_MUL = 747796405u
HASH_MUL == U32(11410, 30645)

\* s * LCG_A + LCG_C
LCG(s) == Add32(Mul32(s, LCG_A), LCG_C)

\* approxNormal01 returning acc, without the * 0.25
approxNormal01_unscaled(seed) ==
    LET s1 == LCG(seed)
        s2 == LCG(s1)
        s3 == LCG(s2)
        s4 == LCG(s3)
    IN 4 * (s1.lo + s2.lo + s3.lo + s4.lo)

\* part_013 / part_021 approxNormal01: the mean of the low halves of four
\* successive LCG states, in units of 2^-18
approxNormal01(seed) ==
    LET s1 == LCG(seed)
        s2 == LCG(s1)
        s3 == LCG(s2)
        s4 == LCG(s3)
    IN s1.lo + s2.lo + s3.lo + s4.lo

\* part_013 hashU32
hashU32(x) ==
    LET v1 == Xor32(x, Shr16(x))
        v2 == Mul32(v1, U32(32747, 13613))
        v3 == Xor32(v2, Shr15(v2))
        v4 == Mul32(v3, U32(33900, 42635))
    IN Xor32(v4, Shr16(v4))

\* part_013 glyphHash
glyphHash(seed, t) == hashU32(Xor32(seed, U32(0, t + 1)))

RECURSIVE Pow2(_)
Pow2(k) == IF k = 0 THEN 1 ELSE 2 * Pow2(k - 1)

\* exp(-LN2 * x) = 2^-x in units of 1/256, x in units of 1/1024: linear between
\* two successive powers of two
Exp2Neg(x) ==
    LET k == x \div 1024
        f == x % 1024
    IN IF k > 8 THEN 0 ELSE ((2048 - f) \div 8) \div Pow2(k)

\* the constants of the respawn distribution, per shader
LENGTH_MIN == 3

LENGTH_RANGE == 20

SPEED_MIN ==
    CASE shader = "part_013" -> 2 * ONE
      [] shader = "part_021" -> (7 * ONE) \div 2
      [] OTHER -> 6 * ONE

SPEED_RANGE ==
    CASE shader = "part_013" -> 16
      [] shader = "part_021" -> 24
      [] OTHER -> 40

ENERGY_BASE_MIN == 4 * ONE

ENERGY_BASE_MAX == 8 * ONE

ENERGY_PER_CELL == (5 * ONE) \div 4

\* the respawn draw r in [0, 1), in units of 2^-18
spawnIntensity(seed) ==
    IF shader \in {"gpu_update", "part_022"} THEN 4 * seed.lo ELSE approxNormal01(seed)

\* 1 / halfLife in units of 1/1000, from the speed (in sixteenths) and the length
decayRate(speed, length) ==
    LET sp16 == speed \div (ONE \div 16)
    IN IF shader = "part_013"
       THEN Min(1000, ((64 + sp16) * (20 + length) * 1000) \div 10240)
       ELSE ((1600 + 35 * sp16) * (100 + 6 * length)) \div 720

\* energy * exp(-lambda * dt), dt in quarters of a second
decay(energy, speed, length, dt) ==
    (energy * Exp2Neg((dt * 256 * decayRate(speed, length)) \div 1000)) \div 256

clamp(x, lo, hi) == Min(Max(x, lo), hi)

\* f32(sim.rows)
rowsF == simUniforms.rows * ONE

\* a head that does not move
advance_stalled(head, speed, dt) == head

\* head + speed * sim.dt, dt in quarters of a second
advance(head, speed, dt) == head + (speed * dt) \div 4

\* a respawn that restarts the head at the top row
wrap_toTop(head) == 0

\* the wrap-around of the respawn branch: head - rowsF
wrap(head) == head - rowsF

\* LENGTH_MIN + u32(spawnIntensity * LENGTH_RANGE)
respawnLength(r) == LENGTH_MIN + (r * LENGTH_RANGE) \div ONE

\* SPEED_MIN + spawnIntensity * SPEED_RANGE
respawnSpeed(r) == SPEED_MIN + r * SPEED_RANGE

\* f32(length) * ENERGY_PER_CELL
energyMax(length) == length * ENERGY_PER_CELL

\* the respawn energy without the min: energyBase alone
respawnEnergy_unclamped(r, length) ==
    ENERGY_BASE_MIN + ((ENERGY_BASE_MAX - ENERGY_BASE_MIN) \div ONE) * r

\* min(energyBase, energyMax) of the respawn branch
respawnEnergy(r, length) ==
    Min(ENERGY_BASE_MIN + ((ENERGY_BASE_MAX - ENERGY_BASE_MIN) \div ONE) * r,
        energyMax(length))

\* a falling branch that refills the column to its cap
fallingEnergy_refilled(energy, speed, length, dt) == energyMax(length)

\* the falling branch: decay, then clamp(energy, 0.0, energyMax)
fallingEnergy(energy, speed, length, dt) ==
    clamp(decay(energy, speed, length, dt), 0, energyMax(length))

\* a seed advanced on every tick
storedSeed_always(seed, respawn) == LCG(seed)

\* seeds[columnIdx] after the tick: one LCG step, in the respawn branch only
storedSeed(seed, respawn) == IF respawn THEN LCG(seed) ELSE seed

\* the column state main computes from the values it has loaded: head, speed,
\* length and energy at its start, the seed inside the respawn branch
columnOf(head0, speed0, length0, seed0, energy0, dt) ==
    LET advanced == advance(head0, speed0, dt)
        respawn == advanced >= rowsF
        seed == storedSeed(seed0, respawn)
        r == spawnIntensity(seed)
        length == IF respawn THEN respawnLength(r) ELSE length0
    IN [respawn |-> respawn,
        head |-> IF respawn THEN wrap(advanced) ELSE advanced,
        seed |-> seed,
        length |-> length,
        speed |-> IF respawn THEN respawnSpeed(r) ELSE speed0,
        energy |->
            IF shader \in {"gpu_update", "part_022"} THEN energy0
            ELSE IF respawn THEN respawnEnergy(r, length)
            ELSE fallingEnergy(energy0, speed0, length0, dt)]

\* the column state one invocation of main leaves for column columnIdx
column(columnIdx, dt) ==
    columnOf(heads[columnIdx], speeds[columnIdx], lengths[columnIdx],
             seeds[columnIdx], energies[columnIdx], dt)

\* the glyph index of trail sample t of a column whose stored seed is seed
glyphIdx(seed, t) ==
    CASE shader = "part_013" -> Mod32(glyphHash(seed, t), simUniforms.glyphCount)
      [] shader \in {"part_021", "part_022"} ->
            Mod32(LCG(Add32(seed, Mul32(U32(0, t), HASH_MUL))), simUniforms.glyphCount)
      [] OTHER -> Mod32(seed, simUniforms.glyphCount)

\* energy * exp(-TRAIL_DECAY * x), boosted for the head sample;
\* TRAIL_DECAY / LN2 = 4.6166 = 4727 / 1024
brightness(energy, length, t) ==
    LET x == IF length > 1 THEN (4727 * t) \div Max(1, length - 1) ELSE 0
        b == (energy * Exp2Neg(x)) \div 256
    IN IF t = 0 THEN (b * 115) \div 100 ELSE b

\* the instance record the emit loop writes for trail sample t
emit(c, t) ==
    LET floorHead == c.head \div ONE
        rowPos == IF floorHead - t < 0 THEN floorHead - t + simUniforms.rows
                  ELSE floorHead - t
    IN [written |-> TRUE, offsetY |-> rowPos * ONE,
        glyph |-> glyphIdx(c.seed, t),
        brightness |->
            IF shader = "part_022"
            THEN ONE - (t * ONE) \div Max(1, Min(c.length, simUniforms.maxTrail) - 1)
            ELSE brightness(c.energy, c.length, t)]

\* the slot trail sample t of column columnIdx is written to
slotIndex_packed(columnIdx, t) == columnIdx + t
slotIndex(columnIdx, t) ==
    IF shader = "gpu_update" THEN columnIdx
    ELSE columnIdx * simUniforms.maxTrail + t

\* the number of samples the emit loop of a column of this length writes
emitted(length) ==
    IF shader = "gpu_update" THEN 1 ELSE Min(length, simUniforms.maxTrail)

\* the stores of a dispatch in which invocation i has computed the column cs[i]
writesOf(cs) ==
    UNION {{[column |-> i, idx |-> slotIndex(i, t)] : t \in 0 .. emitted(cs[i].length) - 1} :
            i \in DOMAIN cs}

\* the instance buffer after every invocation has run its emit loop, cs[i] being
\* the column state invocation i has computed; the
\* gpu-update shader writes one instance per column, at the head itself
emitInto(buffer, cs) ==
    IF shader = "gpu_update"
    THEN [idx \in DOMAIN buffer |->
            LET c == cs[idx]
            IN [written |-> TRUE, offsetY |-> c.head,
                glyph |-> glyphIdx(c.seed, 0), brightness |-> 0]]
    ELSE [idx \in DOMAIN buffer |->
            LET columnIdx == idx \div simUniforms.maxTrail
                t == idx % simUniforms.maxTrail
                c == cs[columnIdx]
                maxLen == Min(c.length, simUniforms.maxTrail)
            IN IF t < maxLen THEN emit(c, t) ELSE buffer[idx]]

emitAll(cs) == emitInto(instances, cs)

\* one dispatch of the compute pass with sim.dt = dt: main runs for every column
simulate(dt) ==
    /\ shader # "unused"
    /\ simUniforms' = [simUniforms EXCEPT !.dt = dt]
    /\ \E cs \in {[i \in DOMAIN heads |-> column(i, dt)]} :
          /\ heads' = [i \in DOMAIN heads |-> cs[i].head]
          /\ speeds' = [i \in DOMAIN speeds |-> cs[i].speed]
          /\ lengths' = [i \in DOMAIN lengths |-> cs[i].length]
          /\ seeds' = [i \in DOMAIN seeds |-> cs[i].seed]
          /\ energies' = [i \in DOMAIN energies |-> cs[i].energy]
          /\ instances' = emitAll(cs)
          /\ slotWrites' = writesOf(cs)
    /\ ticks' = ticks + 1
    /\ UNCHANGED <<shader, pc, regs, ref, nonSimVars>>

\* a frame of the run under check
dispatch(dt) ==
    /\ ticks < MaxTicks
    /\ simulate(dt)

\* the grids, the frame times (in quarters of a second) and the column states
\* createStreamBuffers can produce
SimRows == {1, 4, 10}

Dts == {0, 2, 4}

InitHeads(rows) == {0, rows * ONE - ONE \div 2}

InitSpeeds == {6 * ONE, 46 * ONE - 4}

\* a respawn from the first seed draws r = 0.97 (length 22), from the second
\* r = 0.03 (length 3)
InitLengthSeeds == {<<3, U32(57005, 22425)>>, <<22, U32(0, 20298)>>}

InitColumns(rows) ==
    {[head |-> h, speed |-> sp, length |-> ls[1], seed |-> ls[2]] :
        h \in InitHeads(rows), sp \in InitSpeeds, ls \in InitLengthSeeds}

\* engine/simulation/streams.ts createStreamBuffers, with the layout of
\* computeScreenLayout: maxTrail = max(MIN_TRAIL, rows)
SimInit ==
    /\ shader \in {"part_013", "part_021", "gpu_update"}
    /\ \E rows \in SimRows :
        /\ simUniforms = [dt |-> 0, rows |-> rows, cols |-> SimCols,
                          maxTrail |-> Max(MIN_TRAIL, rows), glyphCount |-> GlyphCount]
        /\ \E cs \in [0 .. SimCols - 1 -> InitColumns(rows)] :
            /\ heads = [i \in 0 .. SimCols - 1 |-> cs[i].head]
            /\ speeds = [i \in 0 .. SimCols - 1 |-> cs[i].speed]
            /\ lengths = [i \in 0 .. SimCols - 1 |-> cs[i].length]
            /\ seeds = [i \in 0 .. SimCols - 1 |-> cs[i].seed]
        /\ energies = [i \in 0 .. SimCols - 1 |-> 0]
        /\ instances =
            [idx \in 0 .. (IF shader = "gpu_update" THEN SimCols
                           ELSE SimCols * Max(MIN_TRAIL, rows)) - 1 |->
                [written |-> FALSE, offsetY |-> 0, glyph |-> 0, brightness |-> 0]]
    /\ ticks = 0
    /\ slotWrites = {}
    /\ ThreadsIdle
    /\ IdleExcept("sim")

SimNext == \E dt \in Dts : dispatch(dt)

SpecSim == SimInit /\ [][SimNext]_vars

\* C14 (as claimed): after every tick every head lies in [0, rows).
C14_HeadInRange ==
    ticks > 0 => \A i \in DOMAIN heads : 0 <= heads[i] /\ heads[i] < rowsF

\* C15: initially and after every tick, respawn or falling, every column's stored
\* energy lies between 0 and length * ENERGY_PER_CELL, for its current length.
C15_EnergyInRange ==
    \A i \in DOMAIN energies :
        0 <= energies[i] /\ energies[i] <= energyMax(lengths[i])

\* one column respawned with energyBase above its new cap and was cut to the cap,
\* another one has decayed below every respawn energy
C15_Witness ==
    /\ shader \in {"part_013", "part_021"}
    /\ \E i, j \in DOMAIN energies :
        /\ lengths[i] = LENGTH_MIN
        /\ energies[i] = energyMax(LENGTH_MIN)
        /\ 0 < energies[j]
        /\ energies[j] < energyMax(LENGTH_MIN)

\* C31: on a tick of part_013 or part_021 in which a column does not respawn
\* (sim.dt >= 0) the stored energy of the column does not increase; the energy
\* rises only on a tick in which the column respawns.
C31_EnergyRisesOnlyOnRespawn ==
    [][\A i \in DOMAIN energies :
        LET advanced == heads[i] + (speeds[i] * simUniforms'.dt) \div 4
        IN /\ advanced < simUniforms.rows * ONE => energies'[i] <= energies[i]
           /\ energies'[i] > energies[i] => advanced >= simUniforms.rows * ONE]_vars

\* a column respawned on the first tick (its seed is one step past an initial
\* seed) and fell on the second one, with sim.dt > 0: its energy is now below
\* the energy the respawn gave it, and still positive
C31_Witness ==
    /\ shader \in {"part_013", "part_021"}
    /\ ticks = 2
    /\ simUniforms.dt > 0
    /\ \E i \in DOMAIN energies :
        /\ \E ls \in InitLengthSeeds : seeds[i] = LCG(ls[2])
        /\ 0 < energies[i]
        /\ energies[i] < respawnEnergy(spawnIntensity(seeds[i]), lengths[i])

\* ---------------------------------------------------------------------------
\* The respawn draw over every seed: one column about to wrap
\* ---------------------------------------------------------------------------

MaxRespawns == 1

\* a one-column grid of four rows whose head is half a cell above the bottom; the
\* seed has any low half (the draw reads only the low halves of the LCG states,
\* which depend only on the low half of the seed)
RespawnInit ==
    /\ shader \in {"part_013", "part_021", "gpu_update"}
    /\ simUniforms = [dt |-> 0, rows |-> 4, cols |-> 1,
                      maxTrail |-> Max(MIN_TRAIL, 4), glyphCount |-> GlyphCount]
    /\ heads = [i \in {0} |-> 4 * ONE - ONE \div 2]
    /\ speeds = [i \in {0} |-> 6 * ONE]
    /\ lengths = [i \in {0} |-> LENGTH_MIN]
    /\ \E lo \in 0 .. W16 - 1 : seeds = [i \in {0} |-> U32(0, lo)]
    /\ energies = [i \in {0} |-> 0]
    /\ instances =
        [idx \in 0 .. (IF shader = "gpu_update" THEN 1 ELSE Max(MIN_TRAIL, 4)) - 1 |->
            [written |-> FALSE, offsetY |-> 0, glyph |-> 0, brightness |-> 0]]
    /\ ticks = 0
    /\ slotWrites = {}
    /\ ThreadsIdle
    /\ IdleExcept("sim")

\* a tick of one second: the head passes the bottom row and the column respawns
respawnTick ==
    /\ ticks < MaxRespawns
    /\ dispatch(4)

SpecRespawn == RespawnInit /\ [][respawnTick]_vars

\* C16: initially and after every tick the stored length lies between LENGTH_MIN
\* and LENGTH_MIN + LENGTH_RANGE (3 and 23), whatever the seed is.
C16_LengthInRange ==
    \A i \in DOMAIN lengths :
        LENGTH_MIN <= lengths[i] /\ lengths[i] <= LENGTH_MIN + LENGTH_RANGE

\* a respawn has drawn the longest trail the draw can give, 22
C16_Witness ==
    /\ ticks > 0
    /\ \E i \in DOMAIN lengths : lengths[i] = LENGTH_MIN + LENGTH_RANGE - 1

\* C17 (as claimed): initially and after every tick no stored length exceeds the
\* trail capacity sim.maxTrail = max(MIN_TRAIL, rows).
C17_LengthWithinMaxTrail ==
    \A i \in DOMAIN lengths : lengths[i] <= simUniforms.maxTrail

\* C18: on a tick where head + speed * dt reaches rows, the head stored by the tick
\* is (head + speed * dt) - rows: rows is subtracted exactly once.
C18_WrapSubtractsRowsOnce ==
    [][\A i \in DOMAIN heads :
        LET advanced == heads[i] + (speeds[i] * simUniforms'.dt) \div 4
        IN advanced >= simUniforms.rows * ONE =>
            heads'[i] = advanced - simUniforms.rows * ONE]_vars

\* rows = 10, head = 9.5, speed = 6.0, one tick of dt = 0.5: 12.5 wraps to 2.5
\* and the column has respawned (its seed is no initial seed)
C18_Witness ==
    /\ simUniforms.rows = 10
    /\ simUniforms.dt = 2
    /\ ticks = 1
    /\ \E i \in DOMAIN heads :
        /\ heads[i] = (5 * ONE) \div 2
        /\ \A ls \in InitLengthSeeds : seeds[i] # ls[2]

\* C19: a tick writes a column's seed only when the column respawns, and then the
\* seed becomes seed * 1664525 + 1013904223 mod 2^32, one LCG step; a falling tick
\* and the glyph selection of the emit loop leave it as it was.
C19_SeedWrittenOnlyOnRespawn ==
    [][\A i \in DOMAIN seeds :
        LET advanced == heads[i] + (speeds[i] * simUniforms'.dt) \div 4
        IN IF advanced >= simUniforms.rows * ONE
           THEN seeds'[i] = Add32(Mul32(seeds[i], U32(25, 26125)), U32(15470, 62303))
           ELSE seeds'[i] = seeds[i]]_vars

\* after one tick one column has respawned (its seed is one step past an initial
\* seed), another one still falls with its initial seed, and both have had their
\* glyphs selected
C19_Witness ==
    /\ ticks = 1
    /\ \E i, j \in DOMAIN seeds :
        /\ \E ls \in InitLengthSeeds :
            seeds[i] = Add32(Mul32(ls[2], U32(25, 26125)), U32(15470, 62303))
        /\ \E ls \in InitLengthSeeds : seeds[j] = ls[2]
        /\ \A idx \in {i, j} :
            instances[IF shader = "gpu_update" THEN idx
                      ELSE idx * simUniforms.maxTrail].written

\* C20: in every frame the instance buffer holds cols * maxTrail slots of 48 bytes,
\* the draw call draws cols * maxTrail instances and the simulation runs with
\* cols * maxTrail slots, for the cols and maxTrail of the layout the application
\* holds, before and after resizes.
C20_InstanceCountInvariant ==
    appImpl # "unused" =>
        LET n == layout.cols * layout.maxTrail
        IN /\ built.instanceBytes \div 48 = n
           /\ built.drawInstances = n
           /\ built.simCols * built.simMaxTrail = n

\* a frame has been submitted with the surface a resize built for 2 columns of 4
\* slots
C20_Witness ==
    /\ gen > 1
    /\ layout.cols * layout.maxTrail = 8
    /\ inFlight # <<>>
    /\ inFlight[Len(inFlight)] = Surface(gen)

\* the layout function of the running entry point
layoutOf(size) ==
    IF appImpl = "listener" THEN computeScreenLayout(size)
    ELSE [viewport |-> size, cols |-> computeGridLayout(size).cols,
          rows |-> computeGridLayout(size).rows,
          maxTrail |-> computeGridLayout(size).maxTrail,
          count |-> computeGridLayout(size).instanceCount]

\* C23 (as claimed): a layout computed from the canvas size has
\* cols = floor(pixelWidth / cellWidth), rows = ceil(pixelHeight / cellHeight),
\* maxTrail = max(MIN_TRAIL, rows) and instanceCount = cols * maxTrail, where
\* pixelWidth and pixelHeight are the backing size of the canvas in physical pixels,
\* at every device pixel ratio.
C23_LayoutFromPhysicalPixels ==
    LET l == layoutOf(canvas)
        now == IF appImpl = "listener" THEN layout
               ELSE [viewport |-> canvas, cols |-> layout.cols, rows |-> layout.rows,
                     maxTrail |-> layout.maxTrail, count |-> layout.instanceCount]
    IN (appImpl \in {"listener", "handleResize"} /\ now = l) =>
        /\ now.cols = canvas.width \div CellWidth
        /\ now.rows = CeilDiv(canvas.height, CellHeight)
        /\ now.maxTrail = Max(MIN_TRAIL, now.rows)
        /\ now.count = now.cols * now.maxTrail

\* ---------------------------------------------------------------------------
\* One dispatch, invocation by invocation: the column threads interleave
\* ---------------------------------------------------------------------------

\* the buffers as one record
Buffers ==
    [heads |-> heads, speeds |-> speeds, lengths |-> lengths, seeds |-> seeds,
     energies |-> energies, instances |-> instances]

\* a whole dispatch on the buffers b, the invocations run in column order
sequential(b, dt) ==
    LET cs == [i \in DOMAIN b.heads |->
                columnOf(b.heads[i], b.speeds[i], b.lengths[i], b.seeds[i],
                         b.energies[i], dt)]
    IN [heads |-> [i \in DOMAIN b.heads |-> cs[i].head],
        speeds |-> [i \in DOMAIN b.heads |-> cs[i].speed],
        lengths |-> [i \in DOMAIN b.heads |-> cs[i].length],
        seeds |-> [i \in DOMAIN b.heads |-> cs[i].seed],
        energies |-> [i \in DOMAIN b.heads |-> cs[i].energy],
        instances |-> emitInto(b.instances, cs)]

\* the two column states of the interleaved runs: one about to wrap, one at the top
ThreadColumns(rows) ==
    {[head |-> rows * ONE - ONE \div 2, speed |-> 6 * ONE, length |-> 3,
      seed |-> U32(57005, 22425)],
     [head |-> 0, speed |-> 46 * ONE - 4, length |-> 22, seed |-> U32(0, 20298)]}

ThreadRows == {4, 10}

ThreadInit ==
    /\ shader \in {"part_013", "part_021", "gpu_update"}
    /\ \E rows \in ThreadRows :
        /\ simUniforms = [dt |-> 0, rows |-> rows, cols |-> SimCols,
                          maxTrail |-> Max(MIN_TRAIL, rows), glyphCount |-> GlyphCount]
        /\ \E cs \in [0 .. SimCols - 1 -> ThreadColumns(rows)] :
            /\ heads = [i \in 0 .. SimCols - 1 |-> cs[i].head]
            /\ speeds = [i \in 0 .. SimCols - 1 |-> cs[i].speed]
            /\ lengths = [i \in 0 .. SimCols - 1 |-> cs[i].length]
            /\ seeds = [i \in 0 .. SimCols - 1 |-> cs[i].seed]
        /\ energies = [i \in 0 .. SimCols - 1 |-> 0]
        /\ instances =
            [idx \in 0 .. (IF shader = "gpu_update" THEN SimCols
                           ELSE SimCols * Max(MIN_TRAIL, rows)) - 1 |->
                [written |-> FALSE, offsetY |-> 0, glyph |-> 0, brightness |-> 0]]
    /\ ticks = 0
    /\ slotWrites = {}
    /\ pc = [i \in 0 .. SimCols - 1 |-> "idle"]
    /\ regs = [i \in 0 .. SimCols - 1 |->
                [head |-> 0, speed |-> 0, length |-> 0, energy |-> 0]]
    /\ ref = Buffers
    /\ IdleExcept("sim")

\* SimulationComputePass.execute: writeFrame(dt) and dispatchWorkgroups; every
\* column gets its invocation; the second run executes the same dispatch whole
beginDispatch(dt) ==
    /\ pc # <<>>
    /\ \A i \in DOMAIN pc : pc[i] = "idle"
    /\ ticks < MaxTicks
    /\ simUniforms' = [simUniforms EXCEPT !.dt = dt]
    /\ pc' = [i \in DOMAIN pc |-> "start"]
    /\ ref' = sequential(ref, dt)
    /\ slotWrites' = {}
    /\ UNCHANGED <<shader, heads, speeds, lengths, seeds, energies, instances, ticks, regs,
                   nonSimVars>>

\* the seed an invocation reads: seeds[columnIdx]
seedAt_shared(columnIdx) == seeds[0]
seedAt(columnIdx) == seeds[columnIdx]

\* main: var head = heads[columnIdx]; speed; length; energy
loadLocals(i) ==
    /\ pc[i] = "start"
    /\ regs' = [regs EXCEPT ![i] = [head |-> heads[i], speed |-> speeds[i],
                                    length |-> lengths[i], energy |-> energies[i]]]
    /\ pc' = [pc EXCEPT ![i] = "loaded"]
    /\ UNCHANGED <<shader, simUniforms, heads, speeds, lengths, seeds, energies, instances,
                   ticks, ref, slotWrites, nonSimVars>>

\* main: advance the head, then the respawn branch (which reads and writes
\* seeds[columnIdx] and writes lengths and speeds) or the decay branch
update(i) ==
    /\ pc[i] = "loaded"
    /\ LET c == columnOf(regs[i].head, regs[i].speed, regs[i].length, seedAt(i),
                         regs[i].energy, simUniforms.dt)
       IN /\ regs' = [regs EXCEPT ![i] = [head |-> c.head, speed |-> c.speed,
                                          length |-> c.length, energy |-> c.energy]]
          /\ IF c.respawn
             THEN /\ seeds' = [seeds EXCEPT ![i] = c.seed]
                  /\ lengths' = [lengths EXCEPT ![i] = c.length]
                  /\ speeds' = [speeds EXCEPT ![i] = c.speed]
             ELSE UNCHANGED <<seeds, lengths, speeds>>
    /\ pc' = [pc EXCEPT ![i] = "updated"]
    /\ UNCHANGED <<shader, simUniforms, heads, energies, instances, ticks, ref, slotWrites, nonSimVars>>

\* main: heads[columnIdx] = head; energies[columnIdx] = energy (gpu-update.wgsl
\* has no energy buffer)
store(i) ==
    /\ pc[i] = "updated"
    /\ heads' = [heads EXCEPT ![i] = regs[i].head]
    /\ energies' = IF shader = "gpu_update" THEN energies
                   ELSE [energies EXCEPT ![i] = regs[i].energy]
    /\ pc' = [pc EXCEPT ![i] = "stored"]
    /\ UNCHANGED <<shader, simUniforms, speeds, lengths, seeds, instances, ticks, regs, ref,
                   slotWrites, nonSimVars>>

\* main: the emit loop, which reads seeds[columnIdx] for the glyph of each sample
emitLoop(i) ==
    /\ pc[i] = "stored"
    /\ LET c == [head |-> regs[i].head, length |-> regs[i].length,
                 energy |-> regs[i].energy, seed |-> seedAt(i)]
           written == {t \in 0 .. simUniforms.maxTrail - 1 : t < emitted(c.length)}
       IN instances' =
            [idx \in DOMAIN instances |->
                IF \E t \in written : slotIndex(i, t) = idx
                THEN LET t == CHOOSE u \in written : slotIndex(i, u) = idx
                     IN IF shader = "gpu_update"
                        THEN [written |-> TRUE, offsetY |-> c.head,
                              glyph |-> glyphIdx(c.seed, 0), brightness |-> 0]
                        ELSE emit(c, t)
                ELSE instances[idx]]
    /\ slotWrites' = slotWrites \cup {[column |-> i, idx |-> slotIndex(i, t)] :
                                t \in 0 .. emitted(regs[i].length) - 1}
    /\ pc' = [pc EXCEPT ![i] = "done"]
    /\ UNCHANGED <<shader, simUniforms, heads, speeds, lengths, seeds, energies, ticks, regs,
                   ref, nonSimVars>>

\* the dispatch is complete when every invocation has returned
endDispatch ==
    /\ pc # <<>>
    /\ \A i \in DOMAIN pc : pc[i] = "done"
    /\ pc' = [i \in DOMAIN pc |-> "idle"]
    /\ ticks' = ticks + 1
    /\ UNCHANGED <<shader, simUniforms, heads, speeds, lengths, seeds, energies, instances,
                   regs, ref, slotWrites, nonSimVars>>

ThreadNext ==
    \/ \E dt \in Dts : beginDispatch(dt)
    \/ \E i \in DOMAIN pc : loadLocals(i)
    \/ \E i \in DOMAIN pc : update(i)
    \/ \E i \in DOMAIN pc : store(i)
    \/ \E i \in DOMAIN pc : emitLoop(i)
    \/ endDispatch

SpecThreads == ThreadInit /\ [][ThreadNext]_vars

\* C21: two runs from the same column state that receive the same dt values hold
\* the same column state and the same instance records after every tick, however
\* the invocations of each tick interleave.
C21_Deterministic ==
    (pc # <<>> /\ \A i \in DOMAIN pc : pc[i] = "idle") => Buffers = ref

\* both ticks have run, a column has respawned and the trails have been emitted
C21_Witness ==
    /\ pc # <<>>
    /\ \A i \in DOMAIN pc : pc[i] = "idle"
    /\ ticks = 2
    /\ simUniforms.dt > 0
    /\ \E i \in DOMAIN seeds : \A c \in ThreadColumns(simUniforms.rows) : seeds[i] # c.seed
    /\ \A i \in DOMAIN heads : instances[slotIndex(i, 0)].written

AllDone == pc # <<>> /\ \A i \in DOMAIN pc : pc[i] = "done"

\* the instance slots of column i
ownSlots(i) ==
    IF shader = "gpu_update" THEN {i}
    ELSE i * simUniforms.maxTrail .. (i + 1) * simUniforms.maxTrail - 1

\* invocation i takes a step
stepOf(i) == pc[i] \in {"start", "loaded", "updated", "stored"} /\ pc'[i] # pc[i]

\* C22: an invocation touches only the state entries and the instance slots of its
\* own column, so every interleaving of the invocations of a dispatch ends in the
\* state the column-by-column execution ends in.
C22_ColumnsIndependent ==
    /\ [](AllDone => Buffers = ref)
    /\ [][\A i \in DOMAIN pc : stepOf(i) =>
            /\ \A j \in DOMAIN pc \ {i} :
                /\ heads'[j] = heads[j] /\ speeds'[j] = speeds[j]
                /\ lengths'[j] = lengths[j] /\ seeds'[j] = seeds[j]
                /\ energies'[j] = energies[j]
            /\ \A idx \in DOMAIN instances :
                instances'[idx] # instances[idx] => idx \in ownSlots(i)]_vars

\* the second column has respawned and emitted before the first one has started
C22_Witness ==
    /\ pc # <<>>
    /\ pc[0] = "start"
    /\ pc[1] = "done"
    /\ ticks = 0
    /\ \A c \in ThreadColumns(simUniforms.rows) : seeds[1] # c.seed
    /\ instances[slotIndex(1, 0)].written
    /\ ~instances[slotIndex(0, 0)].written

\* ---------------------------------------------------------------------------
\* Trails that get shorter: three frames of one column
\* ---------------------------------------------------------------------------

\* frames of a run that follows a trail over two respawns
MaxStaleTicks == 3

\* seeds whose next two respawns draw the lengths 10 then 6, and 10 then 7
StaleSeeds == {U32(0, 325), U32(0, 74)}

StaleInit ==
    /\ shader \in {"part_013", "part_021"}
    /\ simUniforms = [dt |-> 0, rows |-> 10, cols |-> 1, maxTrail |-> Max(MIN_TRAIL, 10),
                      glyphCount |-> GlyphCount]
    /\ \E c \in InitColumns(10) : \E seed \in StaleSeeds \cup {c.seed} :
        /\ heads = [i \in {0} |-> c.head]
        /\ speeds = [i \in {0} |-> c.speed]
        /\ lengths = [i \in {0} |-> c.length]
        /\ seeds = [i \in {0} |-> seed]
    /\ energies = [i \in {0} |-> 0]
    /\ instances =
        [idx \in 0 .. Max(MIN_TRAIL, 10) - 1 |->
            [written |-> FALSE, offsetY |-> 0, glyph |-> 0, brightness |-> 0]]
    /\ ticks = 0
    /\ slotWrites = {}
    /\ ThreadsIdle
    /\ IdleExcept("sim")

staleTick(dt) ==
    /\ ticks < MaxStaleTicks
    /\ simulate(dt)

StaleNext == \E dt \in Dts : staleTick(dt)

SpecStale == StaleInit /\ [][StaleNext]_vars

\* sample t of column i lies beyond the trail of the column and still holds a
\* record that is drawn
stale(i, t) ==
    /\ t >= emitted(lengths[i])
    /\ instances[slotIndex(i, t)].written
    /\ instances[slotIndex(i, t)].brightness > 0

\* C29 (as claimed): a slot left beyond the trail by a respawn to a shorter length
\* is shown for one frame only: the next tick rewrites it or changes its
\* brightness.
C29_StaleForOneFrame ==
    [][ticks' = ticks + 1 =>
        \A i \in DOMAIN heads, t \in 0 .. simUniforms.maxTrail - 1 :
            (shader \in {"part_013", "part_021"} /\ stale(i, t)) =>
                \/ [column |-> i, idx |-> slotIndex(i, t)] \in slotWrites'
                \/ instances'[slotIndex(i, t)].brightness
                        # instances[slotIndex(i, t)].brightness]_vars

\* ---------------------------------------------------------------------------
\* A column over many frames that all advance the time
\* ---------------------------------------------------------------------------

\* frames of a long run
MaxLiveTicks == 9

\* frames of at least half a second a head needs to cross the 4 rows at the
\* lowest speed, 2 cells per second
Horizon == 4

LiveInit ==
    /\ shader \in {"part_013", "part_021", "gpu_update"}
    /\ simUniforms = [dt |-> 0, rows |-> 4, cols |-> 1, maxTrail |-> Max(MIN_TRAIL, 4),
                      glyphCount |-> GlyphCount]
    /\ \E c \in InitColumns(4) :
        /\ heads = [i \in {0} |-> c.head]
        /\ speeds = [i \in {0} |-> c.speed]
        /\ lengths = [i \in {0} |-> c.length]
        /\ seeds = [i \in {0} |-> c.seed]
    /\ energies = [i \in {0} |-> 0]
    /\ instances =
        [idx \in 0 .. (IF shader = "gpu_update" THEN 1 ELSE Max(MIN_TRAIL, 4)) - 1 |->
            [written |-> FALSE, offsetY |-> 0, glyph |-> 0, brightness |-> 0]]
    /\ ticks = 0
    /\ slotWrites = {}
    /\ ThreadsIdle
    /\ IdleExcept("sim")

\* a frame whose dt is positive
liveTick(dt) ==
    /\ dt > 0
    /\ ticks < MaxLiveTicks
    /\ simulate(dt)

LiveNext == \E dt \in Dts : liveTick(dt)

\* a frame has been executed: the step counts a tick
frameExecuted == ticks < MaxLiveTicks /\ ticks' = ticks + 1

\* the render loop requests the next frame in every frame: frames keep coming
SpecLive == LiveInit /\ [][LiveNext]_vars /\ WF_ticks(frameExecuted)

RECURSIVE LCGn(_, _)
LCGn(s, n) == IF n = 0 THEN s ELSE LCGn(LCG(s), n - 1)

\* the lowest bit of the seed of column i: LCG_A and LCG_C are odd, so every
\* respawn flips it
seedBit(i) == seeds[i].lo % 2

\* C30: while frames with dt > 0 keep being executed every column respawns again
\* and again: from every state that is followed by enough frames the column's
\* respawn (the head wraps, the seed advances) occurs.
C30_RespawnsAgainAndAgain ==
    /\ (seedBit(0) = 0 /\ ticks + Horizon <= MaxLiveTicks) ~> (seedBit(0) = 1)
    /\ (seedBit(0) = 1 /\ ticks + Horizon <= MaxLiveTicks) ~> (seedBit(0) = 0)

\* the column has respawned more than twice; its head is below the bottom row
C30_Witness ==
    /\ shader = "part_013"
    /\ ticks = MaxLiveTicks
    /\ heads[0] < rowsF
    /\ \A c \in InitColumns(4), n \in 0 .. 2 : seeds[0] # LCGn(c.seed, n)

-----------------------------------------------------------------------------
(* The fixed-stride shader of part_022 under the bootstrap of
   engine/render/render-graph.ts *)

\* part_022: const MAX_TRAIL: u32 = 250u, the stride of a column's slots
MAX_TRAIL == 250

\* render-graph.ts bootstrap: const MAX_TRAIL = 32, the slots allocated per column
bootstrap_MAX_TRAIL == 32

\* bootstrap and handleResize: stream buffers and cols * MAX_TRAIL instance slots
StrideInit ==
    /\ shader = "part_022"
    /\ \E rows \in ThreadRows, cols \in 1 .. SimCols :
        /\ simUniforms = [dt |-> 0, rows |-> rows, cols |-> cols, maxTrail |-> MAX_TRAIL,
                          glyphCount |-> GlyphCount]
        /\ \E cs \in [0 .. cols - 1 -> ThreadColumns(rows)] :
            /\ heads = [i \in 0 .. cols - 1 |-> cs[i].head]
            /\ speeds = [i \in 0 .. cols - 1 |-> cs[i].speed]
            /\ lengths = [i \in 0 .. cols - 1 |-> cs[i].length]
            /\ seeds = [i \in 0 .. cols - 1 |-> cs[i].seed]
        /\ energies = [i \in 0 .. cols - 1 |-> 0]
        /\ instances =
            [idx \in 0 .. cols * bootstrap_MAX_TRAIL - 1 |->
                [written |-> FALSE, offsetY |-> 0, glyph |-> 0, brightness |-> 0]]
    /\ ticks = 0
    /\ slotWrites = {}
    /\ ThreadsIdle
    /\ IdleExcept("sim")

\* one dispatch of part_022 main. A store past the end of the buffer is dropped
\* or lands on a slot of the buffer (here the last one), as the device decides
dispatch_part022(dt) ==
    /\ shader = "part_022"
    /\ ticks < MaxTicks
    /\ simUniforms' = [simUniforms EXCEPT !.dt = dt]
    /\ LET cs == [i \in DOMAIN heads |-> column(i, dt)]
           ws == writesOf(cs)
           outside == {w \in ws : w.idx \notin DOMAIN instances}
           last == simUniforms.cols * bootstrap_MAX_TRAIL - 1
           record(w) == emit(cs[w.column], w.idx - w.column * MAX_TRAIL)
           inside == [idx \in DOMAIN instances |->
                        IF \E w \in ws : w.idx = idx
                        THEN record(CHOOSE w \in ws : w.idx = idx)
                        ELSE instances[idx]]
       IN /\ heads' = [i \in DOMAIN heads |-> cs[i].head]
          /\ speeds' = [i \in DOMAIN speeds |-> cs[i].speed]
          /\ lengths' = [i \in DOMAIN lengths |-> cs[i].length]
          /\ seeds' = [i \in DOMAIN seeds |-> cs[i].seed]
          /\ slotWrites' = ws
          /\ \/ instances' = inside
             \/ \E w \in outside : instances' = [inside EXCEPT ![last] = record(w)]
    /\ ticks' = ticks + 1
    /\ UNCHANGED <<shader, energies, pc, regs, ref, nonSimVars>>

StrideNext == \E dt \in Dts : dispatch_part022(dt)

SpecStride == StrideInit /\ [][StrideNext]_vars

\* C28 (as claimed): every slot index a dispatch writes is inside the allocated
\* instance buffer and inside the range [column * maxTrail, column * maxTrail +
\* min(length, maxTrail)) of the column that writes it, and no slot is written by
\* two columns.
C28_SlotsInsideBufferAndOwnRange ==
    shader \in {"part_013", "part_021", "part_022"} =>
        \A w \in slotWrites :
            /\ w.idx \in DOMAIN instances
            /\ w.idx >= w.column * simUniforms.maxTrail
            /\ w.idx < w.column * simUniforms.maxTrail
                        + Min(lengths[w.column], simUniforms.maxTrail)
            /\ \A v \in slotWrites : v.idx = w.idx => v.column = w.column

-----------------------------------------------------------------------------
(* The glyph atlas: createGlyphAtlas of engine/render/resources.ts (adaptive
   padding, device limit) and of part_012 *)

\* longest alphabet
MaxGlyphs == 6

DEFAULT_ATLAS_CAP == 8192

MIN_PADDING == 2

\* the widest measureText(ch).width of the alphabet, in half pixels
GlyphWidths == {0, 7, 20}

\* options.fontSize
FontSizes == {8, 16}

\* options.padding: the defaults of part_012 and of resources.ts
Paddings == {4, 8}

\* options.cols: 0 when not given
ColsOptions == {0, 3}

\* device.limits.maxTextureDimension2D
DeviceLimits == {40, 64, 16384}

\* Math.floor(Math.sqrt(n))
floorSqrt(n) == CHOOSE r \in 0 .. n : r * r <= n /\ n < (r + 1) * (r + 1)

\* Math.ceil(Math.sqrt(n))
ceilSqrt(n) == CHOOSE r \in 0 .. n : (r = 0 \/ (r - 1) * (r - 1) < n) /\ n <= r * r

\* a quotient x / y of two pixel counts, kept exact
Quot(x, y) == [num |-> x, den |-> y]

QuotLess(a, b) == a.num * b.den < b.num * a.den

QuotLeq(a, b) == a.num * b.den <= b.num * a.den

computeMaxAtlasSize(limit) == Min(limit, DEFAULT_ATLAS_CAP)

RECURSIVE computeAdaptivePadding(_, _, _, _)
computeAdaptivePadding(padding, glyphCount, cellContentWidth, maxAtlasSize) ==
    IF padding > MIN_PADDING
    THEN LET cellWidth == CeilDiv(cellContentWidth, 2) + padding * 2
             cols == maxAtlasSize \div cellWidth
         IN IF cols > 0 /\ cols * CeilDiv(glyphCount, cols) * cellWidth <= maxAtlasSize
            THEN padding
            ELSE computeAdaptivePadding(padding - 1, glyphCount, cellContentWidth,
                                        maxAtlasSize)
    ELSE padding

\* the grid cell of glyph i
cellOf_lastRowShared(i, glyphsPerRow) ==
    [col |-> i % glyphsPerRow, row |-> i \div (glyphsPerRow + 1)]
cellOf(i, glyphsPerRow) == [col |-> i % glyphsPerRow, row |-> i \div glyphsPerRow]

\* createGlyphAtlas: the grid and the atlas size at a padding
packed(o, padding) ==
    LET cellWidth == CeilDiv(o.maxGlyphWidth, 2) + padding * 2
        cellHeight == o.fontSize + padding * 2
        glyphsPerRow == IF o.cols > 0 THEN o.cols
                        ELSE IF atlasImpl = "part_012" THEN ceilSqrt(o.glyphCount)
                        ELSE floorSqrt(o.glyphCount)
        totalRows == CeilDiv(o.glyphCount, glyphsPerRow)
    IN [padding |-> padding, cellWidth |-> cellWidth, cellHeight |-> cellHeight,
        glyphsPerRow |-> glyphsPerRow, totalRows |-> totalRows,
        atlasWidth |-> glyphsPerRow * cellWidth, atlasHeight |-> totalRows * cellHeight]

\* createGlyphAtlas: the UV rectangle of every glyph index
uvRects(o, g) ==
    [i \in 0 .. o.glyphCount - 1 |->
        LET c == cellOf(i, g.glyphsPerRow)
            x == c.col * g.cellWidth
            y == c.row * g.cellHeight
        IN [u0 |-> Quot(x, g.atlasWidth), v0 |-> Quot(y, g.atlasHeight),
            u1 |-> Quot(x + g.cellWidth, g.atlasWidth),
            v1 |-> Quot(y + g.cellHeight, g.atlasHeight)]]

AtlasInit ==
    /\ atlasImpl \in {"resources", "part_012"}
    /\ atlasOptions \in [glyphCount : 1 .. MaxGlyphs, maxGlyphWidth : GlyphWidths,
                         fontSize : FontSizes, padding : Paddings, cols : ColsOptions,
                         maxTextureDimension2D : DeviceLimits]
    /\ atlasResult = [status |-> "none"]
    /\ IdleExcept("atlas")

\* engine/render/resources.ts createGlyphAtlas
createGlyphAtlas ==
    /\ atlasImpl = "resources"
    /\ atlasResult.status = "none"
    /\ LET ATLAS_MAX_SIZE == computeMaxAtlasSize(atlasOptions.maxTextureDimension2D)
           PADDING == computeAdaptivePadding(atlasOptions.padding, atlasOptions.glyphCount,
                                             atlasOptions.maxGlyphWidth, ATLAS_MAX_SIZE)
           g == packed(atlasOptions, PADDING)
       IN atlasResult' =
            IF g.atlasWidth > ATLAS_MAX_SIZE \/ g.atlasHeight > ATLAS_MAX_SIZE
            THEN [status |-> "thrown", grid |-> g]
            ELSE [status |-> "ok", grid |-> g, uvRects |-> uvRects(atlasOptions, g)]
    /\ UNCHANGED <<atlasImpl, atlasOptions, nonAtlasVars>>

\* part_012 createGlyphAtlas: the padding is used as given, no size check
createGlyphAtlas_part012 ==
    /\ atlasImpl = "part_012"
    /\ atlasResult.status = "none"
    /\ LET g == packed(atlasOptions, atlasOptions.padding)
       IN atlasResult' = [status |-> "ok", grid |-> g, uvRects |-> uvRects(atlasOptions, g)]
    /\ UNCHANGED <<atlasImpl, atlasOptions, nonAtlasVars>>

AtlasNext ==
    \/ createGlyphAtlas
    \/ createGlyphAtlas_part012

SpecAtlas == AtlasInit /\ [][AtlasNext]_vars

Zero == Quot(0, 1)

Unit == Quot(1, 1)

\* C24: in a built atlas every glyph's UV rectangle satisfies 0 <= u0 < u1 <= 1 and
\* 0 <= v0 < v1 <= 1, and the rectangles of two different glyph indices share at
\* most an edge.
C24_UvRectsInsideAndDisjoint ==
    (atlasImpl # "unused" /\ atlasResult.status = "ok") =>
        LET uv == atlasResult.uvRects
        IN /\ \A i \in DOMAIN uv :
                /\ QuotLeq(Zero, uv[i].u0) /\ QuotLess(uv[i].u0, uv[i].u1)
                /\ QuotLeq(uv[i].u1, Unit)
                /\ QuotLeq(Zero, uv[i].v0) /\ QuotLess(uv[i].v0, uv[i].v1)
                /\ QuotLeq(uv[i].v1, Unit)
           /\ \A i, j \in DOMAIN uv :
                i # j => \/ QuotLeq(uv[i].u1, uv[j].u0) \/ QuotLeq(uv[j].u1, uv[i].u0)
                         \/ QuotLeq(uv[i].v1, uv[j].v0) \/ QuotLeq(uv[j].v1, uv[i].v0)

\* an atlas of several rows, the last one partly filled
C24_Witness ==
    /\ atlasImpl # "unused"
    /\ atlasResult.status = "ok"
    /\ atlasOptions.glyphCount = 5
    /\ atlasResult.grid.totalRows > 1
    /\ atlasResult.grid.glyphsPerRow > 1
    /\ atlasResult.grid.totalRows * atlasResult.grid.glyphsPerRow > 5

\* the atlas of these options fits the device at the padding p
fits(p) ==
    LET g == packed(atlasOptions, p)
        limit == computeMaxAtlasSize(atlasOptions.maxTextureDimension2D)
    IN g.atlasWidth <= limit /\ g.atlasHeight <= limit

\* C25 (as claimed): the build throws exactly when the atlas exceeds the device
\* limit at every padding from the minimum to the requested one; when it fits at
\* one of them the build succeeds with a padding at which it fits.
C25_FailsOnlyAtMinimumPadding ==
    (atlasImpl = "resources" /\ atlasResult.status # "none") =>
        LET fitting == {p \in MIN_PADDING .. atlasOptions.padding : fits(p)}
        IN /\ atlasResult.status = "thrown" <=> fitting = {}
           /\ atlasResult.status = "ok" => atlasResult.grid.padding \in fitting

-----------------------------------------------------------------------------
(* backend/shader-loader.ts: ShaderLoader *)

\* load calls made on one loader
MaxLoads == 3

\* destroy calls made on one loader
MaxDestroys == 1

Keys == {"matrix-compute", "matrix-draw"}

\* how loadInternal ends
LoadOutcomes == {"ok", "fetch failed", "empty", "compile error"}

LoaderInit ==
    /\ modules = [k \in Keys |-> 0]
    /\ pending = [k \in Keys |-> 0]
    /\ promises = <<>>
    /\ loads = <<>>
    /\ destroys = 0
    /\ IdleExcept("loader")

has(key) == modules[key] # 0

get(key) == IF modules[key] # 0 THEN [thrown |-> FALSE, module |-> modules[key]]
            ELSE [thrown |-> TRUE, module |-> 0]

\* load: this.pending.has(key)
pendingHas_never(key) == FALSE
pendingHas(key) == pending[key] # 0

\* load, up to its first await: the cached module, the pending promise, or a new
\* loadInternal promise (fetch started) put into pending
load(key) ==
    /\ Len(loads) < MaxLoads
    /\ IF has(key)
       THEN /\ loads' = Append(loads, [key |-> key, promise |-> 0, role |-> "cached",
                                       status |-> "fulfilled", module |-> modules[key]])
            /\ UNCHANGED <<pending, promises>>
       ELSE IF pendingHas(key)
       THEN /\ loads' = Append(loads, [key |-> key, promise |-> pending[key],
                                       role |-> "joined", status |-> "waiting",
                                       module |-> 0])
            /\ UNCHANGED <<pending, promises>>
       ELSE /\ promises' = Append(promises, [key |-> key, state |-> "fetching",
                                             outcome |-> "none"])
            /\ pending' = [pending EXCEPT ![key] = Len(promises) + 1]
            /\ loads' = Append(loads, [key |-> key, promise |-> Len(promises) + 1,
                                       role |-> "owner", status |-> "waiting",
                                       module |-> 0])
    /\ UNCHANGED <<modules, destroys, nonLoaderVars>>

\* a continuation of a load call is queued: its promise has settled
resumable(c) ==
    /\ loads[c].status = "waiting"
    /\ promises[loads[c].promise].state # "fetching"

\* loadInternal throws on this outcome
throws_fetchOnly(outcome) == outcome = "fetch failed"
throws(outcome) == outcome # "ok"

\* loadInternal: fetch, text, createShaderModule, getCompilationInfo. The fetch
\* completes in a task of its own, after the queued continuations have run
loadInternal(p, outcome) ==
    /\ promises[p].state = "fetching"
    /\ \A c \in DOMAIN loads : ~resumable(c)
    /\ promises' = [promises EXCEPT ![p] =
            [key |-> promises[p].key, outcome |-> outcome,
             state |-> IF throws(outcome) THEN "rejected" ELSE "fulfilled"]]
    /\ UNCHANGED <<modules, pending, loads, destroys, nonLoaderVars>>

\* load after `await promise`: the owner stores the module and, in the finally
\* block, deletes the pending entry of the key; a caller that was handed the
\* pending promise settles with it, after the owner, whose reaction was
\* registered first
resume(c) ==
    /\ resumable(c)
    /\ LET l == loads[c]
           p == promises[l.promise]
       IN /\ IF l.role = "owner"
             THEN /\ modules' = IF p.state = "fulfilled"
                                THEN [modules EXCEPT ![l.key] = l.promise]
                                ELSE modules
                  /\ pending' = [pending EXCEPT ![l.key] = 0]
             ELSE /\ \A d \in DOMAIN loads :
                        (loads[d].promise = l.promise /\ loads[d].role = "owner")
                            => loads[d].status # "waiting"
                  /\ UNCHANGED <<modules, pending>>
          /\ loads' = [loads EXCEPT ![c] =
                [l EXCEPT !.status = p.state,
                          !.module = IF p.state = "fulfilled" THEN l.promise ELSE 0]]
    /\ UNCHANGED <<promises, destroys, nonLoaderVars>>

\* destroy: modules.clear(); pending.clear()
loaderDestroy ==
    /\ destroys < MaxDestroys
    /\ modules' = [k \in Keys |-> 0]
    /\ pending' = [k \in Keys |-> 0]
    /\ destroys' = destroys + 1
    /\ UNCHANGED <<promises, loads, nonLoaderVars>>

LoaderNext ==
    \/ \E key \in Keys : load(key)
    \/ \E p \in DOMAIN promises, outcome \in LoadOutcomes : loadInternal(p, outcome)
    \/ \E c \in DOMAIN loads : resume(c)
    \/ loaderDestroy

SpecLoader == LoaderInit /\ [][LoaderNext]_vars

\* C26: however load calls with one key interleave, a second fetch of the key is
\* started only after the earlier one has failed, and all calls that resolve
\* resolve to the same module.
C26_OneFetchPerKey ==
    destroys = 0 =>
        /\ \A p, q \in DOMAIN promises :
            (p < q /\ promises[p].key = promises[q].key) => promises[p].state = "rejected"
        /\ \A c, d \in DOMAIN loads :
            (loads[c].key = loads[d].key /\ loads[c].status = "fulfilled"
                /\ loads[d].status = "fulfilled") => loads[c].module = loads[d].module

\* three calls with one key: the owner, one handed the pending promise, one served
\* from the cache
C26_Witness ==
    /\ destroys = 0
    /\ Len(loads) = 3
    /\ \A c \in DOMAIN loads : loads[c].key = loads[1].key /\ loads[c].status = "fulfilled"
    /\ {loads[c].role : c \in DOMAIN loads} = {"owner", "joined", "cached"}

\* a load call is rejected in this step
rejectedNow(c) ==
    /\ c \in DOMAIN loads
    /\ loads[c].status = "waiting"
    /\ loads'[c].status = "rejected"

\* C27: a load whose fetch fails, whose source is empty or whose compilation reports
\* an error rejects; when it rejects no module is cached under the key (has is
\* false, get throws) and pending no longer holds its promise, so that the next
\* load of the key fetches again.
C27_FailedLoadLeavesNothing ==
    /\ [](destroys = 0 =>
            \A c \in DOMAIN loads :
                /\ (loads[c].role # "cached" /\ loads[c].status # "waiting") =>
                    (loads[c].status = "rejected"
                        <=> promises[loads[c].promise].outcome # "ok")
                /\ (loads[c].role = "owner" /\ loads[c].status = "rejected") =>
                    pending[loads[c].key] # loads[c].promise)
    /\ [][destroys = 0 =>
            \A c \in DOMAIN loads : rejectedNow(c) =>
                /\ ~has(loads[c].key)'
                /\ get(loads[c].key)'.thrown
                /\ pending'[loads[c].key] # loads[c].promise]_vars

\* a load failed on an empty source, and a later load of the key fetches again
C27_Witness ==
    /\ destroys = 0
    /\ \E c, d \in DOMAIN loads :
        /\ c < d
        /\ loads[c].key = loads[d].key
        /\ loads[c].status = "rejected"
        /\ promises[loads[c].promise].outcome = "empty"
        /\ loads[d].role = "owner"
        /\ promises[loads[d].promise].state = "fetching"

\* ---------------------------------------------------------------------------
\* The dispatch of the simulation pass: workgroups and the bounds guard of main
\* ---------------------------------------------------------------------------

\* gpu/simulation-pass.ts: must match WGSL @workgroup_size
WORKGROUP_SIZE_X == 64

\* the widest grid of the model, and the frames of a run
MaxDispatchCols == 130

MaxExecutes == 2

\* the global invocation ids a dispatch of the widest grid covers
Invocations == 0 .. WORKGROUP_SIZE_X * CeilDiv(MaxDispatchCols, WORKGROUP_SIZE_X) - 1

\* createSimulationSurfaceResources and the pass are built from one cols:
\* createStreamBuffers writes it to sim.cols, the pass keeps it as this.cols
DispatchInit ==
    /\ passCols \in 1 .. MaxDispatchCols
    /\ simCols = passCols
    /\ workgroups = 0
    /\ ran = {}
    /\ updated = [i \in Invocations |-> 0]
    /\ executes = 0
    /\ IdleExcept("dispatch")

\* every workgroup of the dispatch in flight has run
dispatchDone == ran = 0 .. workgroups - 1

\* SimulationComputePass.execute: pass.dispatchWorkgroups(Math.ceil(this.cols /
\* WORKGROUP_SIZE_X)); the queue runs a dispatch after the one before it
SimulationComputePass_execute ==
    /\ executes < MaxExecutes
    /\ dispatchDone
    /\ workgroups' = CeilDiv(passCols, WORKGROUP_SIZE_X)
    /\ ran' = {}
    /\ updated' = [i \in Invocations |-> 0]
    /\ executes' = executes + 1
    /\ UNCHANGED <<passCols, simCols, nonDispatchVars>>

\* a main without the bounds guard
returnsEarly_never(columnIdx) == FALSE

\* main: if (columnIdx >= sim.cols) { return; }
returnsEarly(columnIdx) == columnIdx >= simCols

\* the 64 invocations of workgroup g run main: global_invocation_id.x is
\* g * 64 + local id, and an invocation that passes the guard stores the state
\* of column columnIdx (heads, energies, and its instances)
workgroup(g) ==
    /\ g \in (0 .. workgroups - 1) \ ran
    /\ ran' = ran \cup {g}
    /\ updated' = [i \in Invocations |->
                    IF i \div WORKGROUP_SIZE_X = g /\ ~returnsEarly(i)
                    THEN updated[i] + 1 ELSE updated[i]]
    /\ UNCHANGED <<passCols, simCols, workgroups, executes, nonDispatchVars>>

DispatchNext ==
    \/ SimulationComputePass_execute
    \/ \E g \in 0 .. CeilDiv(MaxDispatchCols, WORKGROUP_SIZE_X) - 1 : workgroup(g)

SpecDispatch == DispatchInit /\ [][DispatchNext]_vars

MaxRegCalls == 5

ResourceNames == {"InstanceBuffer", "SceneColor"}

ResourceKinds == {"buffer", "texture", "sampler"}

\* the descriptor objects callers hold, and the sizes a descriptor can name
DescObjects == {1, 2}

DescSizes == {16, 32}

\* new ResourceRegistry(), and the descriptor objects its callers will pass
RegistryInit ==
    /\ regEntries = <<>>
    /\ frozen = FALSE
    /\ callerDescs \in [DescObjects -> DescSizes]
    /\ regCall = [op |-> "new", name |-> "", desc |-> 0]
    /\ regThrown = "none"
    /\ regCalls = 0
    /\ IdleExcept("registry")

\* this.resources.has(name)
declared(name) == \E i \in DOMAIN regEntries : regEntries[i].name = name

\* a stored descriptor that is the caller's own object
storedDesc_shared(o) == [ref |-> o, size |-> 0]

\* Object.freeze({ ...desc }): a frozen copy of the caller's object
storedDesc(o) == [ref |-> 0, size |-> callerDescs[o]]

\* what reading a stored descriptor yields
descOf(d) == IF d.ref = 0 THEN d.size ELSE callerDescs[d.ref]

\* entries(): the declared resources in insertion order, as a reader sees them
entries == [i \in DOMAIN regEntries |->
              [name |-> regEntries[i].name, kind |-> regEntries[i].kind,
               desc |-> descOf(regEntries[i].desc)]]

\* assertMutable, then assertUnique: the error an adder throws, "none" if none
addGuard(name) ==
    IF frozen THEN "frozen"
    ELSE IF declared(name) THEN "declared"
    ELSE "none"

\* addBuffer / addTexture / addSampler(name, desc), desc being the object o
add(kind, name, o) ==
    /\ regCalls < MaxRegCalls
    /\ regCall' = [op |-> "add", name |-> name, desc |-> o]
    /\ regThrown' = addGuard(name)
    /\ regEntries' = IF addGuard(name) = "none"
                     THEN Append(regEntries,
                                 [name |-> name, kind |-> kind, desc |-> storedDesc(o)])
                     ELSE regEntries
    /\ regCalls' = regCalls + 1
    /\ UNCHANGED <<frozen, callerDescs, nonRegistryVars>>

addBuffer(name, o) == add("buffer", name, o)

addTexture(name, o) == add("texture", name, o)

addSampler(name, o) == add("sampler", name, o)

\* freeze()
freeze ==
    /\ regCalls < MaxRegCalls
    /\ frozen' = TRUE
    /\ regCall' = [op |-> "freeze", name |-> "", desc |-> 0]
    /\ regThrown' = "none"
    /\ regCalls' = regCalls + 1
    /\ UNCHANGED <<regEntries, callerDescs, nonRegistryVars>>

\* a caller assigns to a property of a descriptor object it passed or will pass
callerWrites(o, size) ==
    /\ regCalls < MaxRegCalls
    /\ callerDescs[o] # size
    /\ callerDescs' = [callerDescs EXCEPT ![o] = size]
    /\ regCall' = [op |-> "callerWrites", name |-> "", desc |-> o]
    /\ regThrown' = "none"
    /\ regCalls' = regCalls + 1
    /\ UNCHANGED <<regEntries, frozen, nonRegistryVars>>

RegistryNext ==
    \/ \E name \in ResourceNames, o \in DescObjects :
        \/ addBuffer(name, o)
        \/ addTexture(name, o)
        \/ addSampler(name, o)
    \/ freeze
    \/ \E o \in DescObjects, size \in DescSizes : callerWrites(o, size)

SpecRegistry == RegistryInit /\ [][RegistryNext]_vars

\* C33: an adder succeeds exactly when the registry is not frozen and the name is
\* not yet declared, and then appends the entry with a copy of the descriptor;
\* otherwise it throws and the entries stay as they were. No other step changes
\* the entries, and once frozen the registry stays frozen with the same entries.
C33_AddersGuarded ==
    [][/\ regCall'.op = "add" =>
            /\ regThrown' = "none" <=> (~frozen /\ ~declared(regCall'.name))
            /\ regThrown' = "none" =>
                /\ Len(entries') = Len(entries) + 1
                /\ SubSeq(entries', 1, Len(entries)) = entries
                /\ entries'[Len(entries')].name = regCall'.name
                /\ entries'[Len(entries')].desc = callerDescs[regCall'.desc]
            /\ regThrown' # "none" => entries' = entries
       /\ regCall'.op # "add" => entries' = entries
       /\ frozen => (frozen' /\ entries' = entries)]_vars

\* InstanceBuffer was declared and the registry frozen; after two more calls, the
\* last of them a caller changing a descriptor object, the only entry is still
\* InstanceBuffer and its size differs from the one the object now names
C33_Witness ==
    /\ frozen
    /\ Len(regEntries) = 1
    /\ regEntries[1].name = "InstanceBuffer"
    /\ regCall.op = "callerWrites"
    /\ \E o \in DescObjects : regCall.desc = o /\ callerDescs[o] # entries[1].desc
    /\ regCalls = 4

\* ---------------------------------------------------------------------------
\* platform/webgpu/resource-manager.ts: the ResourceManager built from a registry
\* ---------------------------------------------------------------------------

MaxMgrCalls == 4

\* a name no registry declares
GetNames == ResourceNames \cup {"Undeclared"}

\* the registries a caller can have built: distinct names, any kinds
Registries ==
    {<<>>}
    \cup {<<[name |-> n, kind |-> k, desc |-> [ref |-> 0, size |-> 16]]>> :
            n \in ResourceNames, k \in ResourceKinds}
    \cup {<<[name |-> "InstanceBuffer", kind |-> k1, desc |-> [ref |-> 0, size |-> 16]],
            [name |-> "SceneColor", kind |-> k2, desc |-> [ref |-> 0, size |-> 32]]>> :
            k1 \in ResourceKinds, k2 \in ResourceKinds}

NoObjects == [n \in GetNames |-> 0]

ManagerInit ==
    /\ regEntries \in Registries
    /\ frozen \in BOOLEAN
    /\ callerDescs = [o \in DescObjects |-> 16]
    /\ regCall = [op |-> IF frozen THEN "freeze" ELSE "new", name |-> "", desc |-> 0]
    /\ regThrown = "none"
    /\ regCalls = 0
    /\ mgrBuilt = FALSE
    /\ mgrBuffers = NoObjects
    /\ mgrTextures = NoObjects
    /\ mgrSamplers = NoObjects
    /\ mgrDestroyed = FALSE
    /\ gpuObjects = <<>>
    /\ mgrCall = [op |-> "none", name |-> "", ret |-> 0]
    /\ mgrThrown = "none"
    /\ mgrCalls = 0
    /\ IdleExcept("manager")

\* the objects of one kind the constructor has created: name -> position in
\* gpuObjects (the constructor creates one object per entry, in entries() order)
createdOf(kind) ==
    [n \in GetNames |->
        IF \E i \in DOMAIN regEntries : regEntries[i].name = n /\ regEntries[i].kind = kind
        THEN CHOOSE i \in DOMAIN regEntries : regEntries[i].name = n
        ELSE 0]

\* new ResourceManager(device, registry)
ResourceManager_new ==
    /\ ~mgrBuilt
    /\ mgrCalls < MaxMgrCalls
    /\ mgrCall' = [op |-> "new", name |-> "", ret |-> 0]
    /\ mgrCalls' = mgrCalls + 1
    /\ IF ~frozen
       THEN /\ mgrThrown' = "not frozen"
            /\ UNCHANGED <<mgrBuilt, mgrBuffers, mgrTextures, mgrSamplers, gpuObjects>>
       ELSE /\ mgrThrown' = "none"
            /\ mgrBuilt' = TRUE
            /\ gpuObjects' = [i \in DOMAIN regEntries |->
                                [kind |-> regEntries[i].kind, name |-> regEntries[i].name,
                                 destroys |-> 0]]
            /\ mgrBuffers' = createdOf("buffer")
            /\ mgrTextures' = createdOf("texture")
            /\ mgrSamplers' = createdOf("sampler")
    /\ UNCHANGED <<mgrDestroyed, registryVars, nonRegistryManagerVars>>

\* assertAlive
Manager_assertAlive == IF mgrDestroyed THEN "destroyed" ELSE "none"

\* assertKind: this.registry.get(name) throws for an undeclared name
assertKind(name, expected) ==
    IF ~declared(name) THEN "not declared"
    ELSE IF \E i \in DOMAIN regEntries :
                regEntries[i].name = name /\ regEntries[i].kind # expected
    THEN "kind"
    ELSE "none"

\* the common body of getBuffer / getTexture / getSampler over the Map objects
getObject(op, kind, objects, name) ==
    LET error == IF Manager_assertAlive # "none" THEN Manager_assertAlive
                 ELSE IF assertKind(name, kind) # "none" THEN assertKind(name, kind)
                 ELSE IF objects[name] = 0 THEN "not found"
                 ELSE "none"
    IN /\ mgrBuilt
       /\ mgrCalls < MaxMgrCalls
       /\ mgrThrown' = error
       /\ mgrCall' = [op |-> op, name |-> name,
                      ret |-> IF error = "none" THEN objects[name] ELSE 0]
       /\ mgrCalls' = mgrCalls + 1
       /\ UNCHANGED <<mgrBuilt, mgrBuffers, mgrTextures, mgrSamplers, mgrDestroyed,
                      gpuObjects, registryVars, nonRegistryManagerVars>>

getBuffer(name) == getObject("getBuffer", "buffer", mgrBuffers, name)

getTexture(name) == getObject("getTexture", "texture", mgrTextures, name)

getSampler(name) == getObject("getSampler", "sampler", mgrSamplers, name)

\* buf.destroy() / tex.destroy() on every value of the two Maps
destroyValues(objects) ==
    [i \in DOMAIN objects |->
        IF \E n \in GetNames : mgrBuffers[n] = i \/ mgrTextures[n] = i
        THEN [objects[i] EXCEPT !.destroys = @ + 1]
        ELSE objects[i]]

\* a destroyAll that destroys the objects and keeps them
Manager_destroyAll_keeps ==
    /\ mgrBuilt
    /\ mgrCalls < MaxMgrCalls
    /\ mgrCall' = [op |-> "destroyAll", name |-> "", ret |-> 0]
    /\ mgrThrown' = "none"
    /\ mgrCalls' = mgrCalls + 1
    /\ gpuObjects' = destroyValues(gpuObjects)
    /\ UNCHANGED <<mgrBuilt, mgrBuffers, mgrTextures, mgrSamplers, mgrDestroyed,
                   registryVars, nonRegistryManagerVars>>

\* destroyAll
Manager_destroyAll ==
    /\ mgrBuilt
    /\ mgrCalls < MaxMgrCalls
    /\ mgrCall' = [op |-> "destroyAll", name |-> "", ret |-> 0]
    /\ mgrThrown' = "none"
    /\ mgrCalls' = mgrCalls + 1
    /\ IF mgrDestroyed
       THEN UNCHANGED <<gpuObjects, mgrBuffers, mgrTextures, mgrSamplers, mgrDestroyed>>
       ELSE /\ gpuObjects' = destroyValues(gpuObjects)
            /\ mgrBuffers' = NoObjects
            /\ mgrTextures' = NoObjects
            /\ mgrSamplers' = NoObjects
            /\ mgrDestroyed' = TRUE
    /\ UNCHANGED <<mgrBuilt, registryVars, nonRegistryManagerVars>>

ManagerNext ==
    \/ ResourceManager_new
    \/ \E name \in GetNames :
        \/ getBuffer(name)
        \/ getTexture(name)
        \/ getSampler(name)
    \/ Manager_destroyAll

SpecManager == ManagerInit /\ [][ManagerNext]_vars

\* C34: on the registry-backed manager destroyed is terminal; once destroyAll has
\* run every getBuffer / getTexture / getSampler call throws, a getter that
\* returns always returns an object that has not been destroyed, and over any
\* sequence of destroyAll calls no GPU object is destroyed more than once.
C34_DestroyedIsTerminal ==
    /\ [](\A i \in DOMAIN gpuObjects : gpuObjects[i].destroys <= 1)
    /\ [][/\ mgrDestroyed => mgrDestroyed'
          /\ (mgrCall'.op = "destroyAll" /\ mgrThrown' = "none") => mgrDestroyed'
          /\ mgrCall'.op \in {"getBuffer", "getTexture", "getSampler"} =>
                /\ mgrDestroyed => mgrThrown' # "none"
                /\ mgrThrown' = "none" =>
                    /\ mgrCall'.ret \in DOMAIN gpuObjects
                    /\ gpuObjects[mgrCall'.ret].destroys = 0]_vars

\* a manager of a buffer and a texture was destroyed twice; both objects have
\* been destroyed once, and the getBuffer call that followed threw
C34_Witness ==
    /\ mgrDestroyed
    /\ mgrCalls = 4
    /\ Len(gpuObjects) = 2
    /\ \A i \in DOMAIN gpuObjects : gpuObjects[i].destroys = 1
    /\ mgrCall = [op |-> "getBuffer", name |-> "InstanceBuffer", ret |-> 0]
    /\ mgrThrown = "destroyed"

\* ---------------------------------------------------------------------------
\* startRenderLoop and the stop function it returns (part_009, part_015,
\* gpu/screen-uniform-buffer.ts)
\* ---------------------------------------------------------------------------

\* requestAnimationFrame calls of a run
MaxRaf == 6

NoTick == [afterStop |-> FALSE, encoded |-> FALSE, submitted |-> FALSE]

\* startRenderLoop has returned: its first requestAnimationFrame has id 1
StopInit ==
    /\ stopImpl \in {"part_009", "part_015", "screen_uniform_buffer"}
    /\ rafId = IF stopImpl = "screen_uniform_buffer" THEN 0 ELSE 1
    /\ isActive = (stopImpl = "screen_uniform_buffer")
    /\ rafRequests = {1}
    /\ rafCount = 1
    /\ stopCalled = FALSE
    /\ lastTick = NoTick
    /\ IdleExcept("stop")

\* cancelAnimationFrame(id): the request is dropped if it is still pending
cancelAnimationFrame(requests, id) == requests \ {id}

\* what the stop function does to <<rafRequests, isActive>>, given the requests
\* pending when it is called: part_009 / part_015 cancelAnimationFrame(rafId),
\* screen-uniform-buffer.ts isActive = false
stopEffect(requests) ==
    IF stopImpl = "screen_uniform_buffer"
    THEN [requests |-> requests, isActive |-> FALSE]
    ELSE [requests |-> cancelAnimationFrame(requests, rafId), isActive |-> isActive]

\* stop() called from outside a frame
stopOutside ==
    /\ ~stopCalled
    /\ stopImpl # "unused"
    /\ stopCalled' = TRUE
    /\ rafRequests' = stopEffect(rafRequests).requests
    /\ isActive' = stopEffect(rafRequests).isActive
    /\ UNCHANGED <<stopImpl, rafId, rafCount, lastTick, nonStopVars>>

\* the browser runs the requested callback id. texture, cb and sub are what
\* getCurrentTexture, the frame callback and queue.submit do; a callback that
\* "stops" calls stop() and returns
rafCallback(id, texture, cb, sub) ==
    LET running == rafRequests \ {id}
        \* does the callback body reach its end (the requestAnimationFrame call)
        guarded == stopImpl = "screen_uniform_buffer" /\ ~isActive
        acquired == stopImpl = "screen_uniform_buffer" \/ texture = "ok"
        calledBack == ~guarded /\ acquired
        survives ==
            CASE stopImpl = "part_009" -> TRUE
              [] stopImpl = "part_015" -> texture = "ok" /\ cb # "throws" /\ sub = "ok"
              [] OTHER -> ~guarded /\ cb # "throws" /\ sub = "ok"
        submitted ==
            CASE stopImpl = "part_009" -> acquired /\ sub = "ok"
              [] OTHER -> survives
        stops == calledBack /\ cb = "stops"
        afterCb == IF stops THEN stopEffect(running)
                   ELSE [requests |-> running, isActive |-> isActive]
    IN /\ stopImpl # "unused"
       /\ id \in rafRequests
       /\ rafCount < MaxRaf
       /\ lastTick' = [afterStop |-> stopCalled, encoded |-> calledBack,
                       submitted |-> submitted]
       /\ stopCalled' = (stopCalled \/ stops)
       /\ isActive' = afterCb.isActive
       /\ IF survives
          THEN /\ rafCount' = rafCount + 1
               /\ rafRequests' = afterCb.requests \cup {rafCount + 1}
               /\ rafId' = IF stopImpl = "screen_uniform_buffer" THEN rafId
                           ELSE rafCount + 1
          ELSE /\ rafRequests' = afterCb.requests
               /\ UNCHANGED <<rafCount, rafId>>
       /\ UNCHANGED <<stopImpl, nonStopVars>>

CallbackOutcomes == {"ok", "throws", "stops"}

StopNext ==
    \/ stopOutside
    \/ \E id \in 1 .. MaxRaf, texture, sub \in Outcomes, cb \in CallbackOutcomes :
        rafCallback(id, texture, cb, sub)

SpecStop == StopInit /\ [][StopNext]_vars

\* C35 (as claimed): once stop has been called, from outside a frame or from
\* inside a frame callback, no tick that starts afterwards encodes or submits a
\* frame.
C35_NoFrameAfterStop ==
    lastTick.afterStop => (~lastTick.encoded /\ ~lastTick.submitted)

\* ---------------------------------------------------------------------------
\* main.ts / part_006 handleResize with its two awaits, either of which may reject
\* ---------------------------------------------------------------------------

MaxResizeEvents == 3

HandlerInit ==
    /\ appImpl = "handleResize"
    /\ canvas \in CanvasSizes
    /\ layout = computeGridLayout(canvas)
    /\ gen = 1
    /\ live = Surface(1)
    /\ inFlight = <<>>
    /\ resizeInProgress = FALSE
    /\ old = 0
    /\ waitFor = 0
    /\ built = buildSizes(layout)
    /\ handlerPc = "none"
    /\ resizeEvents = 0
    /\ lastEvent = "none"
    /\ IdleExcept("handler")

\* window 'resize': void handleResize(), which runs up to its first await
\* (createRenderBundle) or returns before it
resizeEvent(size) ==
    /\ resizeEvents < MaxResizeEvents
    /\ resizeEvents' = resizeEvents + 1
    /\ canvas' = size
    /\ LET newLayout == computeGridLayout(size)
       IN IF resizeInProgress
          THEN /\ lastEvent' = "ignored"
               /\ UNCHANGED <<resizeInProgress, old, handlerPc>>
          ELSE IF newLayout.cols = layout.cols /\ newLayout.rows = layout.rows
          THEN /\ lastEvent' = "same layout"
               /\ UNCHANGED <<resizeInProgress, old, handlerPc>>
          ELSE /\ lastEvent' = "started"
               /\ resizeInProgress' = TRUE
               /\ old' = gen
               /\ handlerPc' = "createRenderBundle"
    /\ UNCHANGED <<appImpl, layout, gen, live, inFlight, waitFor, built, nonAppHandlerVars>>

\* await createRenderBundle(...) rejects: the async function ends there
bundleRejected ==
    /\ handlerPc' = "rejected"
    /\ UNCHANGED <<resizeInProgress, old>>

\* the promise of createRenderBundle settles; when it resolves the handler swaps
\* app and goes on to await device.queue.onSubmittedWorkDone()
bundleSettles(outcome) ==
    /\ handlerPc = "createRenderBundle"
    /\ IF outcome = "ok"
       THEN /\ live' = live \cup createRenderBundle(gen + 1)
            /\ gen' = gen + 1
            /\ layout' = computeGridLayout(canvas)
            /\ built' = buildSizes(computeGridLayout(canvas))
            /\ handlerPc' = "onSubmittedWorkDone"
            /\ UNCHANGED <<resizeInProgress, old>>
       ELSE /\ bundleRejected
            /\ UNCHANGED <<live, gen, layout, built>>
    /\ UNCHANGED <<appImpl, canvas, inFlight, waitFor, resizeEvents, lastEvent,
                   nonAppHandlerVars>>

\* onSubmittedWorkDone resolves: old.instances.destroy(); old.renderer.destroy();
\* resizeInProgress = false
workDone ==
    /\ handlerPc = "onSubmittedWorkDone"
    /\ live' = live \ createRenderBundle(old)
    /\ old' = 0
    /\ resizeInProgress' = FALSE
    /\ handlerPc' = "none"
    /\ UNCHANGED <<appImpl, canvas, layout, gen, inFlight, waitFor, built, resizeEvents,
                   lastEvent, nonAppHandlerVars>>

HandlerNext ==
    \/ \E size \in CanvasSizes : resizeEvent(size)
    \/ \E outcome \in Outcomes : bundleSettles(outcome)
    \/ workDone

\* every promise the handler awaits settles
SpecHandler ==
    /\ HandlerInit
    /\ [][HandlerNext]_vars
    /\ WF_handlerPc(\E outcome \in Outcomes : bundleSettles(outcome))
    /\ WF_handlerPc(workDone)

\* C36 (as claimed): every handleResize call that sets resizeInProgress
\* eventually resets it to false, also when building the new render bundle fails.
C36_FlagEventuallyReset == resizeInProgress ~> ~resizeInProgress

\* ---------------------------------------------------------------------------
\* main.ts 400-501 / render-graph.ts 189-268: rendererRef hot swap with a
\* debounced, unserialised handleResize
\* ---------------------------------------------------------------------------

MaxSwapHandlers == 3
MaxSwapEvents == 3
Grids == {1, 2}

StreamBufferNames == {"heads", "speeds", "lengths", "seeds", "columns", "params"}
SetObjects == StreamBufferNames \cup {"instances", "renderer"}
SetIds == 1 .. MaxSwapHandlers + 1
NoSwapHandler == [pc |-> "none", grid |-> 0, set |-> 0,
                  oldStreams |-> 0, oldInstances |-> 0, oldRenderer |-> 0]

SwapInit ==
    /\ swapImpl \in {"main.ts", "render-graph.ts"}
    /\ rendererRef = 1
    /\ streamsRef = 1
    /\ instancesBufRef = 1
    /\ currentGrid = 1
    /\ canvasGrid = 1
    /\ resizeTimer = FALSE
    /\ swapHandlers = [h \in 1 .. MaxSwapHandlers |-> NoSwapHandler]
    /\ setsCreated = 1
    /\ destroyCount = [g \in SetIds |-> [o \in SetObjects |-> 0]]
    /\ swapEvents = 0
    /\ swapFrame = [set |-> 0, destroyed |-> FALSE]
    /\ IdleExcept("swap")

swapFrameVars == <<swapImpl, rendererRef, streamsRef, instancesBufRef, currentGrid,
                   canvasGrid, resizeTimer, swapHandlers, setsCreated, destroyCount, swapEvents>>

\* the frame callback: rendererRef.encodeFrame(encoder, currentView, dt); the
\* renderer is bound to the stream buffers and instance buffer of its own set
swapFrameCallback ==
    /\ swapFrame' = [set |-> rendererRef,
                     destroyed |-> \E o \in SetObjects : destroyCount[rendererRef][o] > 0]
    /\ UNCHANGED <<swapFrameVars, nonSwapVars>>

\* window 'resize': if (resizeTimer) cancelAnimationFrame(resizeTimer);
\* resizeTimer = requestAnimationFrame(...)
swapResizeEvent(grid) ==
    /\ swapEvents < MaxSwapEvents
    /\ swapEvents' = swapEvents + 1
    /\ canvasGrid' = grid
    /\ resizeTimer' = TRUE
    /\ UNCHANGED <<swapImpl, rendererRef, streamsRef, instancesBufRef, currentGrid,
                   swapHandlers, setsCreated, destroyCount, swapFrame, nonSwapVars>>

\* handleResize from reading the canvas size to await createRenderer(...):
\* returns when the grid is the current one, else creates newStreams, newInstances
handleResizeBody(h) ==
    IF canvasGrid = currentGrid
    THEN /\ swapHandlers' = [swapHandlers EXCEPT ![h].pc = "returned"]
         /\ UNCHANGED setsCreated
    ELSE /\ setsCreated' = setsCreated + 1
         /\ swapHandlers' = [swapHandlers EXCEPT ![h].pc = "createRenderer",
                                                 ![h].grid = canvasGrid,
                                                 ![h].set = setsCreated + 1]

\* the debounce callback: void handleResize(); resizeTimer = undefined.
\* main.ts awaits a dynamic import before it reads the canvas size
resizeTimerFires(h) ==
    /\ resizeTimer
    /\ swapHandlers[h].pc = "none"
    /\ \A k \in 1 .. h - 1 : swapHandlers[k].pc /= "none"
    /\ resizeTimer' = FALSE
    /\ IF swapImpl = "main.ts"
       THEN /\ swapHandlers' = [swapHandlers EXCEPT ![h].pc = "import"]
            /\ UNCHANGED setsCreated
       ELSE handleResizeBody(h)
    /\ UNCHANGED <<swapImpl, rendererRef, streamsRef, instancesBufRef, currentGrid,
                   canvasGrid, destroyCount, swapEvents, swapFrame, nonSwapVars>>

\* main.ts: the dynamic import settles (a rejection is caught and ignored)
importSettles(h) ==
    /\ swapHandlers[h].pc = "import"
    /\ handleResizeBody(h)
    /\ UNCHANGED <<swapImpl, rendererRef, streamsRef, instancesBufRef, currentGrid,
                   canvasGrid, resizeTimer, destroyCount, swapEvents, swapFrame, nonSwapVars>>

\* createRenderer settles; on success the handler keeps the current references
\* as old* and swaps the three references and the grid, then awaits
\* device.queue.onSubmittedWorkDone()
createRendererSettles(h, outcome) ==
    /\ swapHandlers[h].pc = "createRenderer"
    /\ IF outcome = "ok"
       THEN /\ swapHandlers' = [swapHandlers EXCEPT ![h].pc = "onSubmittedWorkDone",
                                                    ![h].oldStreams = streamsRef,
                                                    ![h].oldInstances = instancesBufRef,
                                                    ![h].oldRenderer = rendererRef]
            /\ rendererRef' = swapHandlers[h].set
            /\ streamsRef' = swapHandlers[h].set
            /\ instancesBufRef' = swapHandlers[h].set
            /\ currentGrid' = swapHandlers[h].grid
       ELSE /\ swapHandlers' = [swapHandlers EXCEPT ![h].pc = "rejected"]
            /\ UNCHANGED <<rendererRef, streamsRef, instancesBufRef, currentGrid>>
    /\ UNCHANGED <<swapImpl, canvasGrid, resizeTimer, setsCreated, destroyCount, swapEvents,
                   swapFrame, nonSwapVars>>

\* oldRenderer.destroy(): the renderer of main.ts is { encodeFrame } and has no
\* destroy, so the call throws a TypeError that the try swallows; the renderer
\* of engine/renderer.ts has one
rendererDestroys(boot) == boot = "render-graph.ts"

\* what the eight try { ... destroy() } catch lines reach
destroyOld(counts, hd, boot) ==
    [g \in SetIds |-> [o \in SetObjects |->
        counts[g][o]
        + (IF o \in StreamBufferNames /\ g = hd.oldStreams THEN 1 ELSE 0)
        + (IF o = "instances" /\ g = hd.oldInstances THEN 1 ELSE 0)
        + (IF o = "renderer" /\ g = hd.oldRenderer /\ rendererDestroys(boot) THEN 1 ELSE 0)]]

\* onSubmittedWorkDone settles (a rejection is ignored): destroy the old set
submittedWorkDone(h) ==
    /\ swapHandlers[h].pc = "onSubmittedWorkDone"
    /\ destroyCount' = destroyOld(destroyCount, swapHandlers[h], swapImpl)
    /\ swapHandlers' = [swapHandlers EXCEPT ![h].pc = "done"]
    /\ UNCHANGED <<swapImpl, rendererRef, streamsRef, instancesBufRef, currentGrid,
                   canvasGrid, resizeTimer, setsCreated, swapEvents, swapFrame, nonSwapVars>>

SwapNext ==
    \/ swapFrameCallback
    \/ \E grid \in Grids : swapResizeEvent(grid)
    \/ \E h \in 1 .. MaxSwapHandlers : resizeTimerFires(h)
    \/ \E h \in 1 .. MaxSwapHandlers : importSettles(h)
    \/ \E h \in 1 .. MaxSwapHandlers, outcome \in Outcomes : createRendererSettles(h, outcome)
    \/ \E h \in 1 .. MaxSwapHandlers : submittedWorkDone(h)

SpecSwap == SwapInit /\ [][SwapNext]_vars

\* the sets some handler has replaced and finished with
superseded ==
    {swapHandlers[h].oldRenderer : h \in {k \in 1 .. MaxSwapHandlers : swapHandlers[k].pc = "done"}}

\* no object of the sets the frame callback references has been destroyed
currentAlive ==
    \A g \in {rendererRef, streamsRef, instancesBufRef}, o \in SetObjects :
        destroyCount[g][o] = 0

\* no object is destroyed twice
neverTwice == \A g \in SetIds, o \in SetObjects : destroyCount[g][o] <= 1

\* C37 (as claimed): under every interleaving of frame ticks with overlapping
\* debounced resize handlers, the renderer, stream buffers and instance buffer
\* the frame callback references are never destroyed, and every superseded set is
\* destroyed exactly once: never twice, and completely once its handler is done.
C37_SwapDestroysExactlyOnce ==
    /\ currentAlive
    /\ ~swapFrame.destroyed
    /\ neverTwice
    /\ \A g \in superseded, o \in SetObjects : destroyCount[g][o] = 1

\* ---------------------------------------------------------------------------
\* Render-target registries: part_008 createRenderTargetRegistry and
\* engine/render/render-target-registry.ts RenderTargetRegistry
\* ---------------------------------------------------------------------------

MaxRtCalls == 4
RtNames == {"sceneColor", "bloom"}
RtSizes == {<<8, 8>>, <<8, 16>>, <<16, 16>>}
NoTargets == [n \in RtNames |-> 0]

TargetInit ==
    /\ rtImpl \in {"part_008", "render-target-registry.ts"}
    /\ \E size \in RtSizes : rtWidth = size[1] /\ rtHeight = size[2]
    /\ colorTargets = NoTargets
    /\ depthTargets = NoTargets
    /\ rtTextures = NoTargets
    /\ screenDescs \in SUBSET RtNames
    /\ deviceTextures = <<>>
    /\ rtCall = [op |-> "new", name |-> "", ret |-> 0]
    /\ rtCalls = 0
    /\ IdleExcept("target")

\* device.createTexture({ size: { width, height }, ... })
deviceCreateTexture(w, h) == [width |-> w, height |-> h, destroys |-> 0]

\* texture.destroy() on each of the textures ids
destroyTextures(texs, ids) ==
    [t \in DOMAIN texs |->
        IF t \in ids THEN [texs[t] EXCEPT !.destroys = @ + 1] ELSE texs[t]]

\* the textures a map holds
held(targets) == {targets[n] : n \in RtNames} \ {0}

\* a clear() that leaves the entries in the map
cleared_kept(targets) == targets

\* colorTargets.clear() / depthTargets.clear()
cleared(targets) == NoTargets

\* part_008 getColor / getDepth: the cached target, or a new texture at the
\* current width and height
getTarget(op, targets, name) ==
    IF targets[name] /= 0
    THEN /\ rtCall' = [op |-> op, name |-> name, ret |-> targets[name]]
         /\ UNCHANGED <<colorTargets, depthTargets, deviceTextures>>
    ELSE \E t \in {Len(deviceTextures) + 1} :
         /\ deviceTextures' = Append(deviceTextures, deviceCreateTexture(rtWidth, rtHeight))
         /\ IF op = "getColor"
            THEN colorTargets' = [colorTargets EXCEPT ![name] = t] /\ UNCHANGED depthTargets
            ELSE depthTargets' = [depthTargets EXCEPT ![name] = t] /\ UNCHANGED colorTargets
         /\ rtCall' = [op |-> op, name |-> name, ret |-> t]

getColor(name) ==
    /\ rtImpl = "part_008"
    /\ rtCalls < MaxRtCalls
    /\ rtCalls' = rtCalls + 1
    /\ getTarget("getColor", colorTargets, name)
    /\ UNCHANGED <<rtImpl, rtWidth, rtHeight, rtTextures, screenDescs, nonTargetVars>>

getDepth(name) ==
    /\ rtImpl = "part_008"
    /\ rtCalls < MaxRtCalls
    /\ rtCalls' = rtCalls + 1
    /\ getTarget("getDepth", depthTargets, name)
    /\ UNCHANGED <<rtImpl, rtWidth, rtHeight, rtTextures, screenDescs, nonTargetVars>>

\* part_008 resize: nothing when the size is the same; else take the new size,
\* destroy every cached texture and clear both maps
RenderTargets_resize(newWidth, newHeight) ==
    /\ rtImpl = "part_008"
    /\ rtCalls < MaxRtCalls
    /\ rtCalls' = rtCalls + 1
    /\ rtCall' = [op |-> "resize", name |-> "", ret |-> 0]
    /\ IF newWidth = rtWidth /\ newHeight = rtHeight
       THEN UNCHANGED <<rtWidth, rtHeight, colorTargets, depthTargets, deviceTextures>>
       ELSE /\ rtWidth' = newWidth
            /\ rtHeight' = newHeight
            /\ deviceTextures' =
                   destroyTextures(deviceTextures, held(colorTargets) \cup held(depthTargets))
            /\ colorTargets' = cleared(colorTargets)
            /\ depthTargets' = cleared(depthTargets)
    /\ UNCHANGED <<rtImpl, rtTextures, screenDescs, nonTargetVars>>

\* part_008 destroy: destroy every cached texture and clear both maps
RenderTargets_destroy ==
    /\ rtImpl = "part_008"
    /\ rtCalls < MaxRtCalls
    /\ rtCalls' = rtCalls + 1
    /\ rtCall' = [op |-> "destroy", name |-> "", ret |-> 0]
    /\ deviceTextures' =
           destroyTextures(deviceTextures, held(colorTargets) \cup held(depthTargets))
    /\ colorTargets' = cleared(colorTargets)
    /\ depthTargets' = cleared(depthTargets)
    /\ UNCHANGED <<rtImpl, rtWidth, rtHeight, rtTextures, screenDescs, nonTargetVars>>

\* the textures the loop of RenderTargetRegistry.resize creates, in the order
\* of the screen-sized names
RECURSIVE recreated(_, _, _, _)
recreated(names, base, w, h) ==
    IF names = {} THEN [map |-> [n \in {} |-> 0], texs |-> <<>>]
    ELSE LET n == CHOOSE x \in names : TRUE
             r == recreated(names \ {n}, base, w, h)
         IN [map |-> [x \in DOMAIN r.map \cup {n} |->
                         IF x = n THEN base + Len(r.texs) + 1 ELSE r.map[x]],
             texs |-> Append(r.texs, deviceCreateTexture(w, h))]

\* RenderTargetRegistry.resize: for every screen-sized descriptor destroy the
\* cached texture, if any, and cache a new one of the given size
RenderTargetRegistry_resize(width, height) ==
    /\ rtImpl = "render-target-registry.ts"
    /\ rtCalls < MaxRtCalls
    /\ rtCalls' = rtCalls + 1
    /\ rtCall' = [op |-> "resize", name |-> "", ret |-> 0]
    /\ rtWidth' = width
    /\ rtHeight' = height
    /\ \E r \in {recreated(screenDescs, Len(deviceTextures), width, height)} :
         /\ deviceTextures' =
                destroyTextures(deviceTextures, {rtTextures[n] : n \in screenDescs} \ {0})
                \o r.texs
         /\ rtTextures' = [n \in RtNames |->
                              IF n \in screenDescs THEN r.map[n] ELSE rtTextures[n]]
    /\ UNCHANGED <<rtImpl, colorTargets, depthTargets, screenDescs, nonTargetVars>>

\* RenderTargetRegistry.getTexture: a view of the cached texture, or throws
RenderTargetRegistry_getTexture(name) ==
    /\ rtImpl = "render-target-registry.ts"
    /\ rtCalls < MaxRtCalls
    /\ rtCalls' = rtCalls + 1
    /\ rtCall' = [op |-> "getTexture", name |-> name,
                  ret |-> IF rtTextures[name] = 0 THEN -1 ELSE rtTextures[name]]
    /\ UNCHANGED <<rtImpl, rtWidth, rtHeight, colorTargets, depthTargets, rtTextures,
                   screenDescs, deviceTextures, nonTargetVars>>

TargetNext ==
    \/ \E name \in RtNames : getColor(name)
    \/ \E name \in RtNames : getDepth(name)
    \/ \E size \in RtSizes : RenderTargets_resize(size[1], size[2])
    \/ RenderTargets_destroy
    \/ \E size \in RtSizes : RenderTargetRegistry_resize(size[1], size[2])
    \/ \E name \in RtNames : RenderTargetRegistry_getTexture(name)

SpecTarget == TargetInit /\ [][TargetNext]_vars

\* C38: after any sequence of get, resize and destroy calls, every texture a
\* render-target registry holds in its cache has not been destroyed and was
\* created at the registry's current width and height.
C38_CachedTexturesLiveAndSized ==
    \A t \in held(colorTargets) \cup held(depthTargets) \cup held(rtTextures) :
        /\ deviceTextures[t].destroys = 0
        /\ deviceTextures[t].width = rtWidth
        /\ deviceTextures[t].height = rtHeight

\* a texture was cached, a resize to another size destroyed it, and a texture
\* of the new size is cached under the same name
C38_Witness ==
    /\ rtCalls >= 3
    /\ \E d \in DOMAIN deviceTextures :
         /\ deviceTextures[d].destroys = 1
         /\ <<deviceTextures[d].width, deviceTextures[d].height>> /= <<rtWidth, rtHeight>>
    /\ \E t \in held(colorTargets) \cup held(depthTargets) \cup held(rtTextures) :
         deviceTextures[t].destroys = 0
====
